---- MODULE Spec2Model ----
(***************************************************************************)
(* Model of the Defects4J mining utility: the output parser                *)
(* (defects_manager.py, mining_buggy_code_logs.py) and the log synthesizer *)
(* (synthetic_log_generator.py).                                           *)
(*                                                                         *)
(* Text is a sequence of one-character strings.  A few fixed literals of   *)
(* the tool output are single symbols of the alphabet (they are named      *)
(* where they are introduced).  Instants are whole seconds; an optional    *)
(* string that is None is the one-symbol sequence None.                    *)
(***************************************************************************)
EXTENDS Integers, Sequences, FiniteSets, TLC

VARIABLES
    pc,                      \* position of the operation being run
    base_time,               \* SyntheticLogGenerator.base_time
    bug,                     \* the Defects4JBug argument
    test_outputs,            \* the List[TestOutput] argument
    log_sequence,            \* generate_debug_session: log_sequence
    investigation_timeline,  \* generate_debug_session: investigation_timeline
    root_cause_summary,      \* generate_debug_session: root_cause
    session,                 \* the SyntheticDebugSession returned
    info_output,             \* _parse_bug_info: the text of 'defects4j info'
    info,                    \* _parse_bug_info: the dictionary returned
    content,                 \* _extract_error_from_failing_tests: the report
    test_name,               \* the test_name argument of the parser functions
    variant,                 \* _extract_error_from_failing_tests: loop variable
    error_section,           \* _extract_error_from_failing_tests: the result
    stdout,                  \* _parse_single_test_result: the tool's stdout
    output,                  \* _parse_single_test_result: the TestOutput
    script,                  \* the script run: main.py or mining_buggy_code_logs.py
    bug_ids,                 \* main: the bug ids of the project
    bug_index,               \* main: the position of the loop in bug_ids
    bug_info,                \* main: bug_info of the bug being processed
    sessions,                \* main: the sessions collected so far
    printed,                 \* main: the 'Processing' and 'Error processing' lines printed
    failing_tests_log,       \* main.py: the file 'failing_tests.log'
    json_file,               \* export_to_json: whether written, and the objects
    jsonl_file,              \* export_to_jsonl: the text written
    args,                    \* a call of a Defects4JManager method: its arguments
    tool,                    \* what the defects4j tool does when the call invokes it
    commands,                \* the tool invocations the call has made
    returned                 \* what the call returns

genVars == <<base_time, bug, test_outputs, log_sequence,
             investigation_timeline, root_cause_summary, session>>

callVars == <<args, tool, commands, returned>>

parserVars == <<info_output, info, content, test_name, variant, error_section,
                stdout, output, callVars>>

pipeVars == <<script, bug_ids, bug_index, bug_info, sessions, printed,
              failing_tests_log, json_file, jsonl_file>>

vars == <<pc, genVars, parserVars, pipeVars>>

----------------------------------------------------------------------------
(* Bounds of the model *)

MaxOutputs == 2        \* longest list of test outcomes of the general inputs
MaxClasses == 4        \* longest list of modified classes
MaxFailRun == 26       \* longest run of failing outcomes of the long inputs
MaxPatchWords == 2     \* longest patch, in words

----------------------------------------------------------------------------
(* Generic helpers on sequences *)

None == <<"<None>">>

Min(a, b) == IF a < b THEN a ELSE b

Take(s, n) == SubSeq(s, 1, Min(n, Len(s)))

RECURSIVE Flatten(_)
Flatten(ss) == IF ss = <<>> THEN <<>> ELSE Head(ss) \o Flatten(Tail(ss))

RECURSIVE SeqsUpTo(_, _)
SeqsUpTo(S, n) ==
    IF n = 0 THEN {<<>>}
    ELSE LET shorter == SeqsUpTo(S, n - 1)
         IN  shorter \cup {Append(s, x) : s \in {t \in shorter : Len(t) = n - 1}, x \in S}

\* Python truthiness of an Optional[str]
Truthy(s) == s # None /\ s # <<>>

\* Python: needle in hay
Contains(hay, needle) ==
    \E i \in 1..(Len(hay) - Len(needle) + 1) :
        SubSeq(hay, i, i + Len(needle) - 1) = needle

UpperLetters == <<"A","B","C","D","E","F","G","H","I","J","K","L","M",
                  "N","O","P","Q","R","S","T","U","V","W","X","Y","Z">>
LowerLetters == <<"a","b","c","d","e","f","g","h","i","j","k","l","m",
                  "n","o","p","q","r","s","t","u","v","w","x","y","z">>

\* Python: str.lower(), one character
LowerChar(c) ==
    IF \E i \in 1..26 : UpperLetters[i] = c
    THEN LowerLetters[CHOOSE i \in 1..26 : UpperLetters[i] = c]
    ELSE c

\* Python: str.lower()
Lower(s) == [i \in 1..Len(s) |-> LowerChar(s[i])]

----------------------------------------------------------------------------
(* utils.py records *)

TestOutput(name, status, err, trace) ==
    [test_name |-> name, status |-> status, error_message |-> err,
     stack_trace |-> trace, execution_time |-> 0, timestamp |-> 0]

LogEntry(ts, level, source, message, metadata) ==
    [timestamp |-> ts, level |-> level, source |-> source,
     message |-> message, metadata |-> metadata]

Defects4JBug(project, bug_id, tests, url, patch, classes) ==
    [project |-> project, bug_id |-> bug_id, triggering_tests |-> tests,
     bug_report_url |-> url, patch |-> patch, modified_classes |-> classes,
     checkout_path |-> None]

SyntheticDebugSession(b, outs, logs, steps, cause) ==
    [bug_info |-> b, test_outputs |-> outs, log_sequence |-> logs,
     investigation_timeline |-> steps, root_cause_summary |-> cause]

----------------------------------------------------------------------------
(* synthetic_log_generator.py *)

SetupStep == 5
FailureStart == 10
FailureStep == 2
StackTraceStep == 1
InvestigationStart == 60
ClassStep == 10
NarratedClasses == 3
DiscoveryStart == 120
DiscoveryStep == 5
ResolutionStart == 180
RerunStep == 10
PassStep == 5
StackTraceChars == 500
SummaryClasses == 2
SummaryErrorChars == 100

\* datetime.isoformat(): the instant as text; two such texts compare as
\* their fields do, from the left (hours, minutes, seconds)
isoformat(t) == <<t \div 3600, (t \div 60) % 60, t % 60>>

_generate_setup_phase(base, b, outs) ==
    LET t0 == base
        t1 == t0 + SetupStep
    IN  [logs |-> << LogEntry(isoformat(t0), "INFO", "build",
                              <<"Building ", b.project, " project (bug ", b.bug_id, ")">>,
                              [project |-> b.project, bug_id |-> b.bug_id]),
                     LogEntry(isoformat(t1), "INFO", "test_runner",
                              <<"Running test suite (", Len(outs), " tests)">>,
                              [test_count |-> Len(outs)]) >>,
         steps |-> << <<"Started investigating ", b.project, " bug #", b.bug_id>>,
                      <<"Executed test suite to reproduce issue">> >>]

\* the condition of line 129: which outcomes the Failure phase narrates
IsNarratedNotPass(out) == out.status # "PASS"

IsNarrated(out) == out.status = "FAIL"

\* the loop of lines 128-160, from outcome i on, with running time t
\* line 156: test_output.stack_trace[:500]
stack_trace_whole(out) == out.stack_trace

stack_trace_excerpt(out) == Take(out.stack_trace, StackTraceChars)

RECURSIVE FailureLoop(_, _, _, _, _)
FailureLoop(outs, i, t, logs, steps) ==
    IF i > Len(outs) THEN [logs |-> logs, steps |-> steps]
    ELSE LET out == outs[i] IN
         IF IsNarrated(out)
         THEN LET t1 == t + FailureStep
                  failed == LogEntry(isoformat(t1), "ERROR", "test",
                                     <<"Test failed: ", out.test_name>>,
                                     [test_name |-> out.test_name,
                                      error |-> out.error_message,
                                      execution_time |-> out.execution_time])
                  t2 == t1 + StackTraceStep
                  trace == LogEntry(isoformat(t2), "ERROR", "test",
                                    <<"Stack trace for ", out.test_name>>,
                                    [stack_trace |-> stack_trace_excerpt(out)])
                  step == <<"Identified failing test: ", out.test_name>>
              IN  IF Truthy(out.stack_trace)
                  THEN FailureLoop(outs, i + 1, t2, logs \o <<failed, trace>>,
                                   Append(steps, step))
                  ELSE FailureLoop(outs, i + 1, t1, Append(logs, failed),
                                   Append(steps, step))
         ELSE FailureLoop(outs, i + 1, t, logs, steps)

\* line 125 with the phase timed from the first outcome's own timestamp
failure_phase_at_outcome_time(base, b, outs) ==
    FailureLoop(outs, 1,
                base + (IF outs = <<>> THEN 0 ELSE outs[1].timestamp) + FailureStart,
                <<>>, <<>>)

_generate_failure_phase(base, b, outs) ==
    FailureLoop(outs, 1, base + FailureStart, <<>>, <<>>)

\* line 185: bug.modified_classes[:3]
narrated_classes_all(b) == b.modified_classes

narrated_classes(b) == Take(b.modified_classes, NarratedClasses)

_generate_investigation_phase(base, b) ==
    LET t0 == base + InvestigationStart
        narrated == narrated_classes(b)
    IN  [logs |-> << LogEntry(isoformat(t0), "DEBUG", "debugger",
                              <<"Starting code investigation">>,
                              [modified_classes |-> b.modified_classes]) >>
                  \o [i \in 1..Len(narrated) |->
                        LogEntry(isoformat(t0 + i * ClassStep), "DEBUG", "debugger",
                                 <<"Examining class: ", narrated[i]>>,
                                 [class |-> narrated[i],
                                  methods_checked |-> <<"method1", "method2">>])],
         steps |-> << <<"Began examining modified classes">> >>
                   \o [i \in 1..Len(narrated) |-> <<"Analyzed ", narrated[i]>>]]

\* the literals of lines 295-301, as text
kwNull == <<"n","u","l","l">>
kwBound == <<"b","o","u","n","d">>
kwIndex == <<"i","n","d","e","x">>
kwAssert == <<"a","s","s","e","r","t">>
kwEq == <<"=","=">>
kwNeq == <<"!","=">>

infer_bound_before_null(patch) ==
    IF patch = <<>> THEN "Logic error in implementation"
    ELSE IF Contains(Lower(patch), kwBound) \/ Contains(Lower(patch), kwIndex)
         THEN "Array bounds or indexing error"
    ELSE IF Contains(Lower(patch), kwNull) THEN "Null pointer handling issue"
    ELSE IF Contains(Lower(patch), kwAssert) THEN "Assertion or validation error"
    ELSE IF Contains(patch, kwEq) \/ Contains(patch, kwNeq)
         THEN "Comparison or equality check error"
    ELSE "Logic error in implementation"

_infer_root_cause_from_patch(patch) ==
    IF patch = <<>> THEN "Logic error in implementation"
    ELSE IF Contains(Lower(patch), kwNull) THEN "Null pointer handling issue"
    ELSE IF Contains(Lower(patch), kwBound) \/ Contains(Lower(patch), kwIndex)
         THEN "Array bounds or indexing error"
    ELSE IF Contains(Lower(patch), kwAssert) THEN "Assertion or validation error"
    ELSE IF Contains(patch, kwEq) \/ Contains(patch, kwNeq)
         THEN "Comparison or equality check error"
    ELSE "Logic error in implementation"

_generate_discovery_phase(base, b) ==
    LET t0 == base + DiscoveryStart
        t1 == t0 + DiscoveryStep
        root_cause_hint == _infer_root_cause_from_patch(b.patch)
    IN  [logs |-> << LogEntry(isoformat(t0), "INFO", "debugger",
                              <<"Root cause identified: ", root_cause_hint>>,
                              [bug_url |-> b.bug_report_url]),
                     LogEntry(isoformat(t1), "DEBUG", "debugger",
                              <<"Analyzing patch differences">>,
                              [modified_files |-> Len(b.modified_classes)]) >>,
         steps |-> << <<"Discovered root cause: ", root_cause_hint>>,
                      <<"Reviewed patch to understand fix">> >>]

\* lines 247-272 with the last entry timed from the start of the phase
resolution_phase_from_start(base, b) ==
    LET t0 == base + ResolutionStart
        t1 == t0 + RerunStep
        t2 == t0 + PassStep
    IN  [logs |-> << LogEntry(isoformat(t0), "INFO", "vcs",
                              <<"Applying patch to fix bug">>,
                              [bug_id |-> b.bug_id]),
                     LogEntry(isoformat(t1), "INFO", "test_runner",
                              <<"Re-running tests after fix">>,
                              [expected_result |-> "PASS"]),
                     LogEntry(isoformat(t2), "INFO", "test",
                              <<"All tests passing after fix">>,
                              [status |-> "SUCCESS"]) >>,
         steps |-> << <<"Applied patch from fixed version">>,
                      <<"Verified fix by re-running tests">>,
                      <<"Confirmed all tests now pass">> >>]

_generate_resolution_phase(base, b) ==
    LET t0 == base + ResolutionStart
        t1 == t0 + RerunStep
        t2 == t1 + PassStep
    IN  [logs |-> << LogEntry(isoformat(t0), "INFO", "vcs",
                              <<"Applying patch to fix bug">>,
                              [bug_id |-> b.bug_id]),
                     LogEntry(isoformat(t1), "INFO", "test_runner",
                              <<"Re-running tests after fix">>,
                              [expected_result |-> "PASS"]),
                     LogEntry(isoformat(t2), "INFO", "test",
                              <<"All tests passing after fix">>,
                              [status |-> "SUCCESS"]) >>,
         steps |-> << <<"Applied patch from fixed version">>,
                      <<"Verified fix by re-running tests">>,
                      <<"Confirmed all tests now pass">> >>]

\* Python: [t for t in test_outputs if t.status == "FAIL"]
failed_tests(outs) == SelectSeq(outs, LAMBDA o : o.status = "FAIL")

_generate_root_cause_summary(b, outs) ==
    LET failed == failed_tests(outs)
        head == <<"Bug in ", b.project, " (#", b.bug_id, "): ",
                  Len(failed), " test(s) failed. ",
                  "Root cause located in ", Take(b.modified_classes, SummaryClasses), ". ">>
    IN  IF failed # <<>> /\ Truthy(failed[1].error_message)
        THEN head \o <<"Error: ", Take(failed[1].error_message, SummaryErrorChars), "...">>
        ELSE head

\* generate_debug_session, lines 37-74: the order in which the phases run
NextPhaseInvestigationFirst(p) ==
    CASE p = "setup" -> "investigation"
      [] p = "investigation" -> "failure"
      [] p = "failure" -> "discovery"
      [] p = "discovery" -> "resolution"
      [] p = "resolution" -> "summary"
      [] p = "summary" -> "return"

NextPhase(p) ==
    CASE p = "setup" -> "failure"
      [] p = "failure" -> "investigation"
      [] p = "investigation" -> "discovery"
      [] p = "discovery" -> "resolution"
      [] p = "resolution" -> "summary"
      [] p = "summary" -> "return"

\* lines 41-63: extend both lists with the phase's output
Extend(phase, p) ==
    /\ pc = p
    /\ log_sequence' = log_sequence \o phase.logs
    /\ investigation_timeline' = investigation_timeline \o phase.steps
    /\ pc' = NextPhase(p)
    /\ UNCHANGED <<base_time, bug, test_outputs, root_cause_summary, session>>
    /\ UNCHANGED parserVars
    /\ UNCHANGED pipeVars

SetupPhase == Extend(_generate_setup_phase(base_time, bug, test_outputs), "setup")

FailurePhase == Extend(_generate_failure_phase(base_time, bug, test_outputs), "failure")

InvestigationPhase == Extend(_generate_investigation_phase(base_time, bug), "investigation")

DiscoveryPhase == Extend(_generate_discovery_phase(base_time, bug), "discovery")

\* the Resolution phase narrated only when some outcome failed
ResolutionPhaseAfterFailure ==
    Extend(IF \E i \in 1..Len(test_outputs) : test_outputs[i].status = "FAIL"
           THEN _generate_resolution_phase(base_time, bug)
           ELSE [logs |-> <<>>, steps |-> <<>>],
           "resolution")

ResolutionPhase == Extend(_generate_resolution_phase(base_time, bug), "resolution")

RootCauseSummary ==
    /\ pc = "summary"
    /\ root_cause_summary' = _generate_root_cause_summary(bug, test_outputs)
    /\ pc' = NextPhase("summary")
    /\ UNCHANGED <<base_time, bug, test_outputs, log_sequence,
                   investigation_timeline, session>>
    /\ UNCHANGED parserVars
    /\ UNCHANGED pipeVars

ReturnSession ==
    /\ pc = "return"
    /\ session' = SyntheticDebugSession(bug, test_outputs, log_sequence,
                                        investigation_timeline, root_cause_summary)
    /\ pc' = "done"
    /\ UNCHANGED <<base_time, bug, test_outputs, log_sequence,
                   investigation_timeline, root_cause_summary>>
    /\ UNCHANGED parserVars
    /\ UNCHANGED pipeVars

----------------------------------------------------------------------------
(* Text, as Python's re and str see it *)

NL == "\n"
TAB == "\t"
CR == "\r"

\* re: \s
IsWs(c) == c \in {" ", TAB, NL, CR}

Max(S) == CHOOSE x \in S : \A y \in S : y <= x
MinOf(S) == CHOOSE x \in S : \A y \in S : x <= y

\* re.MULTILINE: ^ matches at position p of s
AtLineStart(s, p) == p = 1 \/ s[p - 1] = NL

\* the number of whitespace characters of s from position p on
WsRun(s, p) ==
    Max({k \in 0..(Len(s) - p + 1) : \A j \in 0..(k - 1) : IsWs(s[p + j])})

\* the position at which the line holding position p ends: that of its
\* newline, or one past the end of s
LineEnd(s, p) == MinOf({q \in p..(Len(s) + 1) : q = Len(s) + 1 \/ s[q] = NL})

\* s from position a up to, not including, position b
Slice(s, a, b) == SubSeq(s, a, b - 1)

\* Python: s.rstrip()
rstrip(s) == SubSeq(s, 1, Max({k \in 0..Len(s) : k = 0 \/ ~IsWs(s[k])}))

\* Python: s.lstrip(chars)
lstrip(s, chars) ==
    SubSeq(s, MinOf({k \in 1..(Len(s) + 1) : k = Len(s) + 1 \/ s[k] \notin chars}), Len(s))

\* Python: s.strip()
strip(s) == lstrip(rstrip(s), {" ", TAB, NL, CR})

\* Python: s.replace(old, new)
RECURSIVE replace(_, _, _)
replace(s, old, new) ==
    IF s = <<>> THEN <<>>
    ELSE IF Len(old) <= Len(s) /\ SubSeq(s, 1, Len(old)) = old
         THEN new \o replace(SubSeq(s, Len(old) + 1, Len(s)), old, new)
         ELSE <<Head(s)>> \o replace(Tail(s), old, new)

\* Python: s.split(sep)[0]
split_first(s, sep) ==
    LET at == {i \in 1..Len(s) : i + Len(sep) - 1 <= Len(s)
                                 /\ SubSeq(s, i, i + Len(sep) - 1) = sep}
    IN  IF at = {} THEN s ELSE SubSeq(s, 1, MinOf(at) - 1)

----------------------------------------------------------------------------
(* defects_manager.py, mining_buggy_code_logs.py: _parse_bug_info *)

\* the three literals the parser looks for, each one symbol of the text
TestsHeader == "Root cause in triggering tests:"
UrlHeader == "Bug report url:"
SourcesHeader == "List of modified sources:"

\* (?:^[ \t].*\n): an indented line at p that ends with a newline
IndentedLine(s, p) ==
    p <= Len(s) /\ s[p] \in {" ", TAB} /\ LineEnd(s, p) <= Len(s)

\* ((?:^[ \t].*\n)+), greedy: the position after the last such line
RECURSIVE BlockEnd(_, _)
BlockEnd(s, p) == IF IndentedLine(s, p) THEN BlockEnd(s, LineEnd(s, p) + 1) ELSE p

\* header\s*\n((?:^[ \t].*\n)+) tried with the header at position h: the
\* lengths \s* can take
BlockSkips(s, h, header) ==
    IF s[h] # header THEN {}
    ELSE {k \in 0..WsRun(s, h + 1) :
            /\ h + 1 + k <= Len(s)
            /\ s[h + 1 + k] = NL
            /\ IndentedLine(s, h + 2 + k)}

\* re.search(header\s*\n((?:^[ \t].*\n)+), s, re.MULTILINE): group(1), or None
search_block(s, header) ==
    LET hs == {h \in 1..Len(s) : BlockSkips(s, h, header) # {}} IN
    IF hs = {} THEN None
    ELSE LET h == MinOf(hs)
             from == h + 2 + Max(BlockSkips(s, h, header))
         IN  Slice(s, from, BlockEnd(s, from))

\* line 117: the look-ahead (?!->) at position c
NotArrowAhead(b, c) == ~(c + 1 <= Len(b) /\ b[c] = "-" /\ b[c + 1] = ">")

\* ^\s*-\s+(?!->)(.+)$ (strict) or ^\s*-\s*(.+)$ tried at position p of b:
\* the positions at which (.+) can start
BulletStarts(b, p, strict) ==
    LET d == p + WsRun(b, p) IN
    IF ~(AtLineStart(b, p) /\ d <= Len(b) /\ b[d] = "-") THEN {}
    ELSE {c \in (d + 1 + (IF strict THEN 1 ELSE 0))..(d + 1 + WsRun(b, d + 1)) :
            /\ c <= Len(b)
            /\ b[c] # NL
            /\ strict => NotArrowAhead(b, c)}

\* re.findall(pattern, b, re.MULTILINE), from position p on
RECURSIVE findall_bullets(_, _, _)
findall_bullets(b, p, strict) ==
    IF p > Len(b) THEN <<>>
    ELSE IF BulletStarts(b, p, strict) # {}
         THEN LET c == Max(BulletStarts(b, p, strict))
              IN  <<Slice(b, c, LineEnd(b, c))>>
                     \o findall_bullets(b, LineEnd(b, c), strict)
         ELSE findall_bullets(b, p + 1, strict)

\* Bug report url:\s*(.+) tried with the header at position h: the
\* positions at which (.+) can start
UrlStarts(s, h) ==
    IF s[h] # UrlHeader THEN {}
    ELSE {c \in (h + 1)..(h + 1 + WsRun(s, h + 1)) : c <= Len(s) /\ s[c] # NL}

\* lines 125-126
search_url(s) ==
    LET hs == {h \in 1..Len(s) : UrlStarts(s, h) # {}} IN
    IF hs = {} THEN <<>>
    ELSE LET c == Max(UrlStarts(s, MinOf(hs))) IN Slice(s, c, LineEnd(s, c))

\* lines 105-122; strict tells the pattern of defects_manager.py line 117
\* from that of mining_buggy_code_logs.py line 188
triggering_tests_of(s, strict) ==
    LET tests_match == search_block(s, TestsHeader) IN
    IF tests_match # None THEN findall_bullets(tests_match, 1, strict) ELSE <<>>

\* lines 129-142
modified_classes_of_tests_block(s) ==
    LET sources_match == search_block(s, TestsHeader) IN
    IF sources_match # None THEN findall_bullets(sources_match, 1, FALSE) ELSE <<>>

modified_classes_of(s) ==
    LET sources_match == search_block(s, SourcesHeader) IN
    IF sources_match # None THEN findall_bullets(sources_match, 1, FALSE) ELSE <<>>

_parse_bug_info(s, strict) ==
    [triggering_tests |-> triggering_tests_of(s, strict),
     bug_report_url |-> search_url(s),
     modified_classes |-> modified_classes_of(s),
     patch |-> <<>>]

\* defects_manager.py: _parse_bug_info
ParseBugInfo ==
    /\ pc = "parse_bug_info"
    /\ info' = _parse_bug_info(info_output, TRUE)
    /\ pc' = "done"
    /\ UNCHANGED callVars
    /\ UNCHANGED <<info_output, content, test_name, variant, error_section,
                   stdout, output>>
    /\ UNCHANGED genVars
    /\ UNCHANGED pipeVars

\* mining_buggy_code_logs.py: _parse_bug_info
ParseBugInfoMining ==
    /\ pc = "parse_bug_info"
    /\ info' = _parse_bug_info(info_output, FALSE)
    /\ pc' = "done_mining"
    /\ UNCHANGED callVars
    /\ UNCHANGED <<info_output, content, test_name, variant, error_section,
                   stdout, output>>
    /\ UNCHANGED genVars
    /\ UNCHANGED pipeVars

----------------------------------------------------------------------------
(* defects_manager.py: _extract_error_from_failing_tests *)

\* lines 341-345
test_name_variants(name) ==
    << name,
       replace(name, <<":", ":">>, <<".">>),
       IF Contains(name, <<":", ":">>) THEN split_first(name, <<":", ":">>) ELSE name >>

\* (?m)^---\s*{variant}(?:\s+(.*))?$ tried at position p of c: the lengths
\* \s* can take
HeaderSkips(c, p, v) ==
    IF ~(AtLineStart(c, p) /\ p + 2 <= Len(c) /\ SubSeq(c, p, p + 2) = <<"-", "-", "-">>)
    THEN {}
    ELSE {k \in 0..WsRun(c, p + 3) :
            LET r == p + 3 + k + Len(v) IN
            /\ r - 1 <= Len(c)
            /\ Slice(c, p + 3 + k, r) = v
            /\ r > Len(c) \/ IsWs(c[r])}

\* line 351: re.search(header_re, content); whether it matched, and the
\* match's group(1) and end(), the position after the match
header_search(c, v) ==
    LET ps == {p \in 1..Len(c) : HeaderSkips(c, p, v) # {}} IN
    IF ps = {} THEN [matched |-> FALSE, group1 |-> None, end |-> 0]
    ELSE LET p == MinOf(ps)
             r == p + 3 + Max(HeaderSkips(c, p, v)) + Len(v)
             g == r + WsRun(c, r)
         IN  IF WsRun(c, r) = 0
             THEN [matched |-> TRUE, group1 |-> None, end |-> r]
             ELSE [matched |-> TRUE, group1 |-> Slice(c, g, LineEnd(c, g)),
                   end |-> LineEnd(c, g)]

\* lines 363-365: the next header in content[start_pos:], ^ matching at the
\* start of that slice as well
end_pos_of(c, start_pos) ==
    LET ps == {p \in start_pos..Len(c) :
                 /\ p = start_pos \/ c[p - 1] = NL
                 /\ p + 3 <= Len(c)
                 /\ SubSeq(c, p, p + 2) = <<"-", "-", "-">>
                 /\ IsWs(c[p + 3])}
    IN  IF ps = {} THEN Len(c) + 1 ELSE MinOf(ps)

\* lines 357-374: the error section of a matched header
error_section_of(c, header_match) ==
    LET header_extra == IF header_match.group1 = None THEN <<>> ELSE header_match.group1
        start_pos == header_match.end
        rest_block == rstrip(lstrip(Slice(c, start_pos, end_pos_of(c, start_pos)),
                                    {CR, NL}))
    IN  IF header_extra # <<>>
        THEN rstrip(header_extra) \o <<NL>> \o rest_block
        ELSE rest_block

\* lines 347-380: the loop over the variants, from the i-th on; the result
\* and the variant at which the loop stopped
RECURSIVE VariantLoop(_, _, _)
VariantLoop(c, variants, i) ==
    IF i > Len(variants) THEN [error_section |-> None, variant |-> variants[Len(variants)]]
    ELSE LET header_match == header_search(c, variants[i]) IN
         IF ~header_match.matched THEN VariantLoop(c, variants, i + 1)
         ELSE IF strip(error_section_of(c, header_match)) # <<>>
              THEN [error_section |-> error_section_of(c, header_match),
                    variant |-> variants[i]]
              ELSE VariantLoop(c, variants, i + 1)

_extract_error_from_failing_tests(c, name) ==
    VariantLoop(c, test_name_variants(name), 1)

ExtractErrorFromFailingTests ==
    /\ pc = "extract_error"
    /\ LET r == _extract_error_from_failing_tests(content, test_name) IN
          /\ error_section' = r.error_section
          /\ variant' = r.variant
    /\ pc' = "done"
    /\ UNCHANGED callVars
    /\ UNCHANGED <<info_output, info, content, test_name, stdout, output>>
    /\ UNCHANGED genVars
    /\ UNCHANGED pipeVars

----------------------------------------------------------------------------
(* defects_manager.py: _parse_single_test_result *)

\* the literal of line 280: "Failing tests: " is one symbol of the text
FailingTests == "Failing tests: "
FailingTestsZero == <<FailingTests, "0">>

\* line 280
passed_prefix(out) == Len(out) >= 2 /\ SubSeq(out, 1, 2) = FailingTestsZero

passed(out) == Contains(out, FailingTestsZero)

\* the outcome with the output of the run kept as its stack trace
parse_single_test_result_with_trace(name, out) ==
    TestOutput(name, IF passed(out) THEN "PASS" ELSE "FAIL", None, out)

_parse_single_test_result(name, out) ==
    TestOutput(name, IF passed(out) THEN "PASS" ELSE "FAIL", None, None)

ParseSingleTestResult ==
    /\ pc = "parse_single_test_result"
    /\ output' = _parse_single_test_result(test_name, stdout)
    /\ pc' = "done"
    /\ UNCHANGED callVars
    /\ UNCHANGED <<info_output, info, content, test_name, variant, error_section, stdout>>
    /\ UNCHANGED genVars
    /\ UNCHANGED pipeVars

----------------------------------------------------------------------------
(* Inputs of the log synthesizer *)

BaseTimes == {0, 3595}

TestNames == <<"t1", "t2", "t3", "t4">>
ClassNames == <<"c1", "c2", "c3", "c4", "c5", "c6">>

Statuses == {"PASS", "FAIL", "ERROR"}
StackTraces == {None, <<>>, <<"a", "t">>}
ErrorMessages == {None, <<"e">>}

\* the outcome lists: any status, stack trace and error message at any
\* position; the i-th outcome is the run of the i-th test
OutputShapes == Statuses \X ErrorMessages \X StackTraces

OutputList(shapes) ==
    [i \in 1..Len(shapes) |->
        TestOutput(TestNames[((i - 1) % Len(TestNames)) + 1],
                   shapes[i][1], shapes[i][2], shapes[i][3])]

OutputLists == {OutputList(s) : s \in SeqsUpTo(OutputShapes, MaxOutputs)}

\* long runs of one and the same failing outcome
LongOutputLists ==
    {OutputList([i \in 1..n |-> <<"FAIL", None, tr>>]) :
        n \in 0..MaxFailRun, tr \in StackTraces}

ClassLists == {SubSeq(ClassNames, 1, n) : n \in 0..MaxClasses}

PatchWords == {kwNull, <<"N","U","L","L">>, kwBound, <<"I","n","d","e","x">>,
               kwAssert, kwEq, kwNeq, <<"x">>, <<"=">>}

Patches == {Flatten(ws) : ws \in SeqsUpTo(PatchWords, MaxPatchWords)}

\* no method of the manager is being called
CallIdle ==
    /\ args = None /\ tool = None /\ commands = <<>> /\ returned = None

\* no parser function is running
ParserIdle ==
    /\ info_output = None /\ info = None
    /\ content = None /\ test_name = None /\ variant = None /\ error_section = None
    /\ stdout = None /\ output = None
    /\ CallIdle

\* the file at the path given to export_to_json: absent until written, then
\* the list of objects dumped into it
NoJsonFile == [written |-> FALSE, objects |-> <<>>]

JsonFile(objects) == [written |-> TRUE, objects |-> objects]

\* main is not running
PipelineIdle ==
    /\ script = None
    /\ bug_ids = <<>> /\ bug_index = 0 /\ bug_info = None
    /\ sessions = <<>> /\ printed = <<>> /\ failing_tests_log = <<>>
    /\ json_file = NoJsonFile /\ jsonl_file = None

\* no session is being generated
GeneratorIdle ==
    /\ base_time = 0 /\ bug = None /\ test_outputs = <<>>
    /\ log_sequence = <<>> /\ investigation_timeline = <<>>
    /\ root_cause_summary = None /\ session = None

GenInit(outs, classes, patches, bases) ==
    /\ pc = "setup"
    /\ base_time \in bases
    /\ bug \in {Defects4JBug("Lang", "1", <<>>, <<"u">>, p, cl) :
                    p \in patches, cl \in classes}
    /\ test_outputs \in outs
    /\ log_sequence = <<>>
    /\ investigation_timeline = <<>>
    /\ root_cause_summary = None
    /\ session = None
    /\ ParserIdle
    /\ PipelineIdle

Init == GenInit(OutputLists, ClassLists, {<<>>, kwNull}, BaseTimes)

InitLong == GenInit(LongOutputLists, {<<>>, <<"c1">>}, {<<>>}, BaseTimes)

InitPatch == GenInit({<<>>}, {<<"c1">>}, Patches, {0})

Next ==
    \/ SetupPhase
    \/ FailurePhase
    \/ InvestigationPhase
    \/ DiscoveryPhase
    \/ ResolutionPhase
    \/ RootCauseSummary
    \/ ReturnSession

Spec == Init /\ [][Next]_vars

SpecLong == InitLong /\ [][Next]_vars

SpecPatch == InitPatch /\ [][Next]_vars

\* outcome lists with stack traces on both sides of the 500-character cut
LongTrace == [i \in 1..(StackTraceChars + 1) |-> "s"]

TraceOutputLists ==
    {OutputList(s) :
        s \in SeqsUpTo(Statuses \X {None} \X (StackTraces \cup {LongTrace}),
                       MaxOutputs)}

InitTrace == GenInit(TraceOutputLists, {<<"c1">>}, {<<>>}, {0})

SpecTrace == InitTrace /\ [][Next]_vars

----------------------------------------------------------------------------
(* Several calls of generate_debug_session on one generator *)

MaxCalls == 3          \* calls made on the generator

\* the instants at which the tests of a call may have been run
OutcomeTimes == {0, 7}

\* TestOutput.timestamp of every outcome of the list
StampedAt(outs, ts) == [i \in 1..Len(outs) |-> [outs[i] EXCEPT !.timestamp = ts]]

CallOutputLists ==
    LET failing == <<"FAIL", <<"e">>, <<"a", "t">>>>
        passing == <<"PASS", None, None>>
    IN  {OutputList(s) : s \in {<<>>, <<failing>>, <<passing, failing>>,
                                <<failing, failing>>}}

\* the caller keeps the session returned and calls the generator again:
\* base_time is the generator's, log_sequence and investigation_timeline
\* start empty (lines 37-38)
CallAgain ==
    /\ pc = "done"
    /\ Len(sessions) + 1 < MaxCalls
    /\ sessions' = Append(sessions, session)
    /\ \E outs \in CallOutputLists, ts \in OutcomeTimes :
          test_outputs' = StampedAt(outs, ts)
    /\ log_sequence' = <<>>
    /\ investigation_timeline' = <<>>
    /\ root_cause_summary' = None
    /\ session' = None
    /\ pc' = "setup"
    /\ UNCHANGED <<base_time, bug>>
    /\ UNCHANGED parserVars
    /\ UNCHANGED <<script, bug_ids, bug_index, bug_info, printed,
                   failing_tests_log, json_file, jsonl_file>>

InitCalls == GenInit(CallOutputLists, {<<"c1">>}, {<<>>}, BaseTimes)

NextCalls == Next \/ CallAgain

SpecCalls == InitCalls /\ [][NextCalls]_vars

----------------------------------------------------------------------------
(* Inputs of _parse_bug_info: texts made of the lines the tool prints *)

MaxInfoLines == 4

\* Python: sep.join(lines)
RECURSIVE join(_, _)
join(lines, sep) ==
    IF lines = <<>> THEN <<>>
    ELSE IF Len(lines) = 1 THEN lines[1]
    ELSE lines[1] \o sep \o join(Tail(lines), sep)

\* the texts made of at most n of the lines, the last line with or without
\* its newline
Texts(lines, n) ==
    {join(ls, <<NL>>) \o end : ls \in SeqsUpTo(lines, n), end \in {<<>>, <<NL>>}}

InfoLines ==
    { <<TestsHeader>>,
      <<" ", "-", " ", "a">>,
      <<" ", "-", " ", "b">>,
      <<" ", " ", " ", "-", "-", ">", " ", "e">>,
      <<UrlHeader, " ", "u">>,
      <<SourcesHeader>>,
      <<>>,
      <<"x">> }

InitInfo ==
    /\ pc = "parse_bug_info"
    /\ info_output \in Texts(InfoLines, MaxInfoLines)
    /\ info = None
    /\ content = None /\ test_name = None /\ variant = None /\ error_section = None
    /\ stdout = None /\ output = None
    /\ CallIdle
    /\ GeneratorIdle
    /\ PipelineIdle

NextInfo == ParseBugInfo \/ ParseBugInfoMining

SpecInfo == InitInfo /\ [][NextInfo]_vars

----------------------------------------------------------------------------
(* Inputs of _extract_error_from_failing_tests: reports made of header
   lines and lines of error text *)

MaxReportLines == 3

Header(name) == <<"-", "-", "-", " ">> \o name

nameAm == <<"A", ":", ":", "m">>
nameAdotm == <<"A", ".", "m">>
nameA == <<"A">>
nameBn == <<"B", ":", ":", "n">>

ReportLines ==
    { Header(nameAm), Header(nameAdotm), Header(nameA), Header(nameBn),
      Header(nameAm) \o <<" ", "x">>,
      <<"e">>,
      <<" ", "f">>,
      <<>> }

InitExtract ==
    /\ pc = "extract_error"
    /\ content \in Texts(ReportLines, MaxReportLines)
    /\ test_name \in {nameAm, nameA}
    /\ variant = None /\ error_section = None
    /\ info_output = None /\ info = None
    /\ stdout = None /\ output = None
    /\ CallIdle
    /\ GeneratorIdle
    /\ PipelineIdle

NextExtract == ExtractErrorFromFailingTests

SpecExtract == InitExtract /\ [][NextExtract]_vars

----------------------------------------------------------------------------
(* Inputs of _parse_single_test_result *)

MaxStdout == 4

StdoutSymbols == {FailingTests, "0", "1", NL}

InitSingle ==
    /\ pc = "parse_single_test_result"
    /\ stdout \in SeqsUpTo(StdoutSymbols, MaxStdout)
    /\ test_name \in {nameAm, nameBn}
    /\ output = None
    /\ info_output = None /\ info = None
    /\ content = None /\ variant = None /\ error_section = None
    /\ CallIdle
    /\ GeneratorIdle
    /\ PipelineIdle

NextSingle == ParseSingleTestResult

SpecSingle == InitSingle /\ [][NextSingle]_vars

----------------------------------------------------------------------------
(* synthetic_log_generator.py: generate_debug_session as one call *)

generate_debug_session(base, b, outs) ==
    LET setup == _generate_setup_phase(base, b, outs)
        failure == _generate_failure_phase(base, b, outs)
        investigation == _generate_investigation_phase(base, b)
        discovery == _generate_discovery_phase(base, b)
        resolution == _generate_resolution_phase(base, b)
    IN  SyntheticDebugSession(b, outs,
            setup.logs \o failure.logs \o investigation.logs
                \o discovery.logs \o resolution.logs,
            setup.steps \o failure.steps \o investigation.steps
                \o discovery.steps \o resolution.steps,
            _generate_root_cause_summary(b, outs))

----------------------------------------------------------------------------
(* dataset_exporter.py.  In the sessions that are exported every name
   (project, bug id, test, class) is a text, as the parser returns it. *)

\* str(datetime): isoformat with a blank for the 'T'
str_datetime(t) == isoformat(t)

\* dataclasses.asdict and json's default=str on what json cannot write
asdict_bug(b) == b

asdict_output(o) == [o EXCEPT !.timestamp = str_datetime(o.timestamp)]

asdict_log(log) == log

\* f"{session.bug_info.project}_{session.bug_info.bug_id}"
entry_bug_id(s) == s.bug_info.project \o <<"_">> \o s.bug_info.bug_id

\* line 34 restricted to the failing outcomes
test_failures_failing(s) ==
    LET failing == SelectSeq(s.test_outputs, LAMBDA o : o.status = "FAIL")
    IN  [i \in 1..Len(failing) |-> asdict_output(failing[i])]

test_failures(s) ==
    [i \in 1..Len(s.test_outputs) |-> asdict_output(s.test_outputs[i])]

\* export_to_json, lines 26-35: the entry of one session
json_entry(s) ==
    [bug_id |-> entry_bug_id(s),
     project |-> s.bug_info.project,
     bug_info |-> asdict_bug(s.bug_info),
     logs |-> [i \in 1..Len(s.log_sequence) |-> asdict_log(s.log_sequence[i])],
     timeline |-> s.investigation_timeline,
     root_cause |-> s.root_cause_summary,
     test_failures |-> test_failures(s)]

\* export_to_json: the document json.dump writes
export_to_json(ss) == [i \in 1..Len(ss) |-> json_entry(ss[i])]

\* an entry of export_to_jsonl identified by the bug number alone
jsonl_entry_by_bug_number(s) ==
    [bug_id |-> s.bug_info.bug_id,
     project |-> s.bug_info.project,
     logs |-> [i \in 1..Len(s.log_sequence) |-> asdict_log(s.log_sequence[i])],
     timeline |-> s.investigation_timeline,
     root_cause |-> s.root_cause_summary]

\* export_to_jsonl, lines 49-55: the entry of one session
jsonl_entry(s) ==
    [bug_id |-> entry_bug_id(s),
     project |-> s.bug_info.project,
     logs |-> [i \in 1..Len(s.log_sequence) |-> asdict_log(s.log_sequence[i])],
     timeline |-> s.investigation_timeline,
     root_cause |-> s.root_cause_summary]

----------------------------------------------------------------------------
(* The text json.dumps writes.  The literal pieces of a message, and the
   punctuation of JSON, are single symbols of the text. *)

QUOTE == "\""
BACKSLASH == "\\"

DigitChars == <<"0", "1", "2", "3", "4", "5", "6", "7", "8", "9">>

\* Python: str(n), n >= 0
RECURSIVE str_int(_)
str_int(n) ==
    IF n < 10 THEN <<DigitChars[n + 1]>>
    ELSE str_int(n \div 10) \o <<DigitChars[(n % 10) + 1]>>

\* two digits of a clock field
pad2(n) == IF n < 10 THEN <<"0">> \o str_int(n) ELSE str_int(n)

\* the kinds of the pieces of an f-string of the generator: "a" a literal,
\* "t" a text, "i" an integer, "j" a list joined by ', '
Kinds(frags) ==
    CASE frags[1] = "Building " -> <<"a", "t", "a", "t", "a">>
      [] frags[1] = "Running test suite (" -> <<"a", "i", "a">>
      [] frags[1] \in {"Test failed: ", "Stack trace for ", "Examining class: ",
                       "Identified failing test: ", "Analyzed "} -> <<"a", "t">>
      [] frags[1] = "Started investigating " -> <<"a", "t", "a", "t">>
      [] frags[1] = "Bug in " ->
            <<"a", "t", "a", "t", "a", "i", "a", "a", "j", "a", "a", "t", "a">>
      [] OTHER -> [i \in 1..Len(frags) |-> "a"]

render_fragment(kind, v) ==
    CASE kind = "a" -> <<v>>
      [] kind = "t" -> v
      [] kind = "i" -> str_int(v)
      [] kind = "j" -> join(v, <<",", " ">>)

\* the string an f-string evaluates to
render(frags) ==
    Flatten([i \in 1..Len(frags) |-> render_fragment(Kinds(frags)[i], frags[i])])

\* json.dumps of a string that is written as it is
escape_raw(c) == <<c>>

\* json.dumps of one character of a string
escape_char(c) ==
    CASE c = QUOTE -> <<BACKSLASH, QUOTE>>
      [] c = BACKSLASH -> <<BACKSLASH, BACKSLASH>>
      [] c = NL -> <<BACKSLASH, "n">>
      [] c = TAB -> <<BACKSLASH, "t">>
      [] c = CR -> <<BACKSLASH, "r">>
      [] OTHER -> <<c>>

dumps_str(text) ==
    <<QUOTE>> \o Flatten([i \in 1..Len(text) |-> escape_char(text[i])]) \o <<QUOTE>>

\* json.dumps of a list and of a dict, with the default separators
dumps_list(items) == <<"[">> \o join(items, <<", ">>) \o <<"]">>

dumps_dict(keys, values) ==
    <<"{">> \o join([i \in 1..Len(keys) |->
                        dumps_str(<<keys[i]>>) \o <<": ">> \o values[i]], <<", ">>)
           \o <<"}">>

\* the keys of the metadata dictionaries, in the order they are inserted
MetaKeys == <<"project", "bug_id", "test_count", "test_name", "error",
              "execution_time", "stack_trace", "modified_classes", "class",
              "methods_checked", "bug_url", "modified_files",
              "expected_result", "status">>

dumps_meta_value(k, v) ==
    CASE k \in {"project", "bug_id", "test_name", "stack_trace", "class", "bug_url"} ->
            dumps_str(v)
      [] k = "error" -> IF v = None THEN <<"null">> ELSE dumps_str(v)
      [] k \in {"test_count", "modified_files"} -> str_int(v)
      [] k = "execution_time" -> str_int(v) \o <<".", "0">>
      [] k = "modified_classes" -> dumps_list([i \in 1..Len(v) |-> dumps_str(v[i])])
      [] k = "methods_checked" -> dumps_list([i \in 1..Len(v) |-> dumps_str(<<v[i]>>)])
      [] k \in {"expected_result", "status"} -> dumps_str(<<v>>)

dumps_metadata(m) ==
    LET keys == SelectSeq(MetaKeys, LAMBDA k : k \in DOMAIN m)
    IN  dumps_dict(keys, [i \in 1..Len(keys) |-> dumps_meta_value(keys[i], m[keys[i]])])

dumps_timestamp(ts) ==
    dumps_str(pad2(ts[1]) \o <<":">> \o pad2(ts[2]) \o <<":">> \o pad2(ts[3]))

dumps_log(log) ==
    dumps_dict(<<"timestamp", "level", "source", "message", "metadata">>,
               <<dumps_timestamp(log.timestamp), dumps_str(<<log.level>>),
                 dumps_str(<<log.source>>), dumps_str(render(log.message)),
                 dumps_metadata(log.metadata)>>)

\* json.dumps(entry, default=str) of an entry of export_to_jsonl
dumps_jsonl_entry(e) ==
    dumps_dict(<<"bug_id", "project", "logs", "timeline", "root_cause">>,
               <<dumps_str(e.bug_id), dumps_str(e.project),
                 dumps_list([i \in 1..Len(e.logs) |-> dumps_log(e.logs[i])]),
                 dumps_list([i \in 1..Len(e.timeline) |->
                                dumps_str(render(e.timeline[i]))]),
                 dumps_str(render(e.root_cause))>>)

\* export_to_jsonl: the text written, one write per session
export_to_jsonl(ss) ==
    Flatten([i \in 1..Len(ss) |-> dumps_jsonl_entry(jsonl_entry(ss[i])) \o <<NL>>])

\* DatasetExporter.export_to_json(sessions, path)
ExportToJson ==
    /\ pc = "export_to_json"
    /\ json_file' = JsonFile(export_to_json(sessions))
    /\ pc' = "export_to_jsonl"
    /\ UNCHANGED <<script, bug_ids, bug_index, bug_info, sessions, printed,
                   failing_tests_log, jsonl_file>>
    /\ UNCHANGED <<genVars, parserVars>>

\* DatasetExporter.export_to_jsonl(sessions, path)
ExportToJsonl ==
    /\ pc = "export_to_jsonl"
    /\ jsonl_file' = export_to_jsonl(sessions)
    /\ pc' = "exported"
    /\ UNCHANGED <<script, bug_ids, bug_index, bug_info, sessions, printed,
                   failing_tests_log, json_file>>
    /\ UNCHANGED <<genVars, parserVars>>

----------------------------------------------------------------------------
(* Inputs of the exporter: lists of sessions the generator returns *)

MaxSessions == 2       \* longest list of sessions exported

\* an error text with a line break, a quote and a backslash
ErrorText == <<"e", NL, QUOTE, BACKSLASH, "f">>

ExportBugs ==
    {Defects4JBug(<<"L">>, id, <<>>, <<"u">>, <<>>, <<<<"c">>>>) : id \in {<<"1">>, <<"2">>}}

ExportOutputLists ==
    { <<>>,
      <<TestOutput(<<"t">>, "FAIL", ErrorText, <<"a", NL, "t">>)>>,
      <<TestOutput(<<"p">>, "PASS", None, None),
        TestOutput(<<"t">>, "FAIL", None, None)>> }

ExportSessions ==
    {generate_debug_session(0, b, outs) : b \in ExportBugs, outs \in ExportOutputLists}

InitExport ==
    /\ pc = "export_to_json"
    /\ sessions \in SeqsUpTo(ExportSessions, MaxSessions)
    /\ json_file = NoJsonFile /\ jsonl_file = None
    /\ script = None
    /\ bug_ids = <<>> /\ bug_index = 0 /\ bug_info = None
    /\ printed = <<>> /\ failing_tests_log = <<>>
    /\ GeneratorIdle
    /\ ParserIdle

NextExport == ExportToJson \/ ExportToJsonl

SpecExport == InitExport /\ [][NextExport]_vars

----------------------------------------------------------------------------
(* defects_manager.py, mining_buggy_code_logs.py: the calls main makes *)

\* the members of a finite set of positions, in increasing order
Ascending(S) ==
    [k \in 1..Cardinality(S) |-> CHOOSE p \in S : Cardinality({q \in S : q <= p}) = k]

\* Python: s.split("\n")
RECURSIVE split_lines(_)
split_lines(s) ==
    LET at == {i \in 1..Len(s) : s[i] = NL} IN
    IF at = {} THEN <<s>>
    ELSE <<SubSeq(s, 1, MinOf(at) - 1)>> \o split_lines(SubSeq(s, MinOf(at) + 1, Len(s)))

\* get_all_bugs: result.stdout.strip().split("\n")
get_all_bugs(out) == split_lines(strip(out))

\* get_bug_info that also names the directory of the checkout
get_bug_info_with_checkout_path(project, bug_id, out, strict) ==
    LET parsed == _parse_bug_info(out, strict)
    IN  [Defects4JBug(project, bug_id, parsed.triggering_tests,
                      parsed.bug_report_url, parsed.patch, parsed.modified_classes)
            EXCEPT !.checkout_path = <<"./defects4j_work", "/">> \o project
                                        \o <<"_">> \o bug_id \o <<"_", "b">>]

\* get_bug_info: the parsed sections with project and bug_id added
get_bug_info(project, bug_id, out, strict) ==
    LET parsed == _parse_bug_info(out, strict)
    IN  Defects4JBug(project, bug_id, parsed.triggering_tests,
                     parsed.bug_report_url, parsed.patch, parsed.modified_classes)

\* checkout_bug: work_dir / f"{project}_{bug_id}_{version}"
WorkDir == "./defects4j_work"

checkout_path_of(project, bug_id) ==
    <<WorkDir, "/">> \o project \o <<"_">> \o bug_id \o <<"_", "b">>

\* [a-zA-Z0-9_.]: the class without '$' and ':'
DottedNameChars ==
    {LowerLetters[i] : i \in 1..26} \cup {UpperLetters[i] : i \in 1..26}
        \cup {DigitChars[i] : i \in 1..10} \cup {"_", "."}

\* [a-zA-Z0-9_.$:]
NameChars ==
    {LowerLetters[i] : i \in 1..26} \cup {UpperLetters[i] : i \in 1..26}
        \cup {DigitChars[i] : i \in 1..10} \cup {"_", ".", "$", ":"}

\* re.findall(r"^  - ([a-zA-Z0-9_.$:]+)$", stdout, re.MULTILINE): the
\* positions at which a match starts
FailingLineStarts(out) ==
    {p \in 1..Len(out) :
        /\ AtLineStart(out, p)
        /\ p + 3 <= Len(out)
        /\ SubSeq(out, p, p + 3) = <<" ", " ", "-", " ">>
        /\ LineEnd(out, p) > p + 4
        /\ \A q \in (p + 4)..(LineEnd(out, p) - 1) : out[q] \in NameChars}

_parse_test_output(out) ==
    LET starts == Ascending(FailingLineStarts(out))
    IN  [k \in 1..Len(starts) |->
            TestOutput(Slice(out, starts[k] + 4, LineEnd(out, starts[k])),
                       "FAIL", None, None)]

\* _run_single_test: failing is the content of the file 'failing_tests',
\* None when the file does not exist
_run_single_test(name, out, failing) ==
    LET parsed == _parse_single_test_result(name, out)
    IN  IF failing # None /\ Contains(failing, name) /\ ~Truthy(parsed.error_message)
        THEN [parsed EXCEPT !.error_message =
                  _extract_error_from_failing_tests(failing, name).error_section]
        ELSE parsed

\* a file 'failing_tests' that exists and whose open() or read() raises
Unreadable == <<"<Unreadable>">>

\* the loop of lines 309-316 without the test of the status
enrich_every_status(outputs, failing) ==
    IF failing = Unreadable THEN outputs
    ELSE [i \in 1..Len(outputs) |->
            IF ~Truthy(outputs[i].error_message)
            THEN [outputs[i] EXCEPT !.error_message =
                      _extract_error_from_failing_tests(failing, outputs[i].test_name).error_section]
            ELSE outputs[i]]

\* _enrich_with_failure_details: failing is what reading the file gives;
\* when reading raises, the handler of lines 317-321 prints a warning and
\* the outputs are returned as they are
_enrich_with_failure_details(outputs, failing) ==
    IF failing = Unreadable THEN outputs
    ELSE [i \in 1..Len(outputs) |->
            IF outputs[i].status = "FAIL" /\ ~Truthy(outputs[i].error_message)
            THEN [outputs[i] EXCEPT !.error_message =
                      _extract_error_from_failing_tests(failing, outputs[i].test_name).error_section]
            ELSE outputs[i]]

\* run_tests of defects_manager.py (lines 186-206): stdouts[i] and
\* failings[i] are what the run of the i-th test prints and leaves in
\* 'failing_tests', suite is what the run of the whole suite prints
run_tests(specific_tests, stdouts, failings, suite) ==
    IF specific_tests # <<>>
    THEN [i \in 1..Len(specific_tests) |->
            _run_single_test(specific_tests[i], stdouts[i], failings[i])]
    ELSE _parse_test_output(suite)

\* run_tests of mining_buggy_code_logs.py (lines 257-277): failing is the
\* file as the last run leaves it
run_tests_mining(specific_tests, stdouts, failings, suite, failing) ==
    LET outputs == run_tests(specific_tests, stdouts, failings, suite)
    IN  IF failing # None THEN _enrich_with_failure_details(outputs, failing)
        ELSE outputs

\* export_patch: result_diff.stdout if result_diff.returncode == 0 else
\* result.stdout
export_patch(changes_stdout, diff_returncode, diff_stdout) ==
    IF diff_returncode = 0 THEN diff_stdout ELSE changes_stdout

----------------------------------------------------------------------------
(* main of main.py and of mining_buggy_code_logs.py: the loop over the bugs *)

MaxBugs == 2           \* most bug ids the tool lists

MainPy == "main.py"
MiningPy == "mining_buggy_code_logs.py"

\* mining_buggy_code_logs.py line 889: get_all_bugs(project)[:5]
BugsTaken == 5

\* main.py line 71, mining_buggy_code_logs.py line 885
Project == IF script = MainPy THEN <<"M", "o", "c", "k", "i", "t", "o">>
           ELSE <<"L", "a", "n", "g">>

\* where the script goes on when the loop is over
LoopExit == IF script = MainPy THEN "main_done" ELSE "export_to_json"

\* the handler with a break in the place of continue
except_break == LoopExit

\* line 114 (main.py), line 922 (mining_buggy_code_logs.py): continue
except_continue == "for"

\* the parameters of Defects4JManager.export_patch after self
\* (defects_manager.py line 382), and the arguments of the call of main.py
\* line 94
export_patch_parameters == <<"project", "bug_id">>

export_patch_arguments == <<Project, bug_ids[bug_index], <<WorkDir>>>>

\* main.py lines 96-99: what is appended to 'failing_tests.log'
failing_tests_record(project, bug_id, b) ==
    <<"report for ">> \o project \o <<"-">> \o bug_id \o <<":", NL>>
        \o b.bug_report_url \o <<NL>>
        \o <<"patch for ">> \o project \o <<"-">> \o bug_id \o <<":", NL>>
        \o b.patch \o <<NL>>
        \o <<NL, NL>>

\* what the tool prints and leaves behind for one bug
InfoOutputs ==
    { <<>>,
      join(<< <<TestsHeader>>, <<" ", "-", " ">> \o nameAm, <<UrlHeader, " ", "u">>,
              <<SourcesHeader>>, <<" ", "-", " ", "c">> >>, <<NL>>) \o <<NL>> }

TestStdouts == {<<FailingTests, "0", NL>>, <<FailingTests, "1", NL>>}

FailingFiles ==
    {None, join(<<Header(nameAm), <<"e">>, <<" ", "f">>>>, <<NL>>) \o <<NL>>}

SuiteStdouts ==
    {<<>>, <<FailingTests, "1", NL, " ", " ", "-", " ">> \o nameAm \o <<NL>>}

\* stdout of the export of code.changes, return code and stdout of the
\* export of diff
PatchExports == {<<kwBound, 0, kwNull>>, <<kwBound, 1, <<>>>>}

\* the try body is left by exception e: the handler prints and continues
Except(e) ==
    /\ printed' = Append(printed, <<"Error processing ", Project, "-",
                                    bug_ids[bug_index], ": ", e>>)
    /\ pc' = except_continue
    /\ UNCHANGED <<script, bug_ids, bug_index, bug_info, sessions,
                   failing_tests_log, json_file, jsonl_file>>
    /\ UNCHANGED <<genVars, parserVars>>

\* for bug_id in bug_ids
ForBugId ==
    /\ pc = "for"
    /\ IF bug_index < Len(bug_ids)
       THEN /\ bug_index' = bug_index + 1
            /\ printed' = Append(printed, <<"Processing ", Project, " bug ",
                                            bug_ids[bug_index + 1]>>)
            /\ pc' = "get_bug_info"
       ELSE /\ pc' = LoopExit
            /\ UNCHANGED <<bug_index, printed>>
    /\ UNCHANGED <<script, bug_ids, bug_info, sessions, failing_tests_log,
                   json_file, jsonl_file>>
    /\ UNCHANGED <<genVars, parserVars>>

\* Step 1: bug_info = d4j.get_bug_info(project, bug_id)
GetBugInfo ==
    /\ pc = "get_bug_info"
    /\ \/ /\ \E out \in InfoOutputs :
                bug_info' = get_bug_info(Project, bug_ids[bug_index], out,
                                         script = MainPy)
          /\ pc' = "checkout_bug"
          /\ UNCHANGED <<script, bug_ids, bug_index, sessions, printed,
                         failing_tests_log, json_file, jsonl_file>>
          /\ UNCHANGED <<genVars, parserVars>>
       \/ Except("OSError")

\* Step 2: checkout_path = d4j.checkout_bug(...); subprocess.run(check=True)
CheckoutBug ==
    /\ pc = "checkout_bug"
    /\ \/ /\ bug_info' = [bug_info EXCEPT !.checkout_path =
                             checkout_path_of(Project, bug_ids[bug_index])]
          /\ pc' = "run_tests"
          /\ UNCHANGED <<script, bug_ids, bug_index, sessions, printed,
                         failing_tests_log, json_file, jsonl_file>>
          /\ UNCHANGED <<genVars, parserVars>>
       \/ Except("CalledProcessError")

\* Step 3: test_outputs = d4j.run_tests(checkout_path, bug_info.triggering_tests)
RunTests ==
    /\ pc = "run_tests"
    /\ \/ /\ \E out \in TestStdouts, failing \in FailingFiles, suite \in SuiteStdouts :
                LET n == Len(bug_info.triggering_tests)
                    stdouts == [i \in 1..n |-> out]
                    failings == [i \in 1..n |-> failing]
                IN  test_outputs' =
                        IF script = MainPy
                        THEN run_tests(bug_info.triggering_tests, stdouts, failings, suite)
                        ELSE run_tests_mining(bug_info.triggering_tests, stdouts,
                                              failings, suite, failing)
          /\ pc' = "export_patch"
          /\ UNCHANGED <<base_time, bug, log_sequence, investigation_timeline,
                         root_cause_summary, session>>
          /\ UNCHANGED <<parserVars, pipeVars>>
       \/ Except("OSError")

\* Step 4 of mining_buggy_code_logs.py:
\* bug_info.patch = d4j.export_patch(project, bug_id)
ExportPatch ==
    /\ pc = "export_patch"
    /\ script = MiningPy
    /\ \/ /\ \E r \in PatchExports :
                bug_info' = [bug_info EXCEPT !.patch = export_patch(r[1], r[2], r[3])]
          /\ pc' = "generate_debug_session"
          /\ UNCHANGED <<script, bug_ids, bug_index, sessions, printed,
                         failing_tests_log, json_file, jsonl_file>>
          /\ UNCHANGED <<genVars, parserVars>>
       \/ Except("OSError")

\* Step 4 of main.py, lines 94-99: the call binds its arguments to the
\* parameters of export_patch, then the record is appended to the log
ExportPatchAndLog ==
    /\ pc = "export_patch"
    /\ script = MainPy
    /\ IF Len(export_patch_arguments) # Len(export_patch_parameters)
       THEN Except("TypeError")
       ELSE \/ /\ \E r \in PatchExports :
                     LET patched == [bug_info EXCEPT
                                        !.patch = export_patch(r[1], r[2], r[3])]
                     IN  /\ bug_info' = patched
                         /\ failing_tests_log' =
                                failing_tests_log
                                  \o failing_tests_record(Project, bug_ids[bug_index],
                                                          patched)
               /\ pc' = "for"
               /\ UNCHANGED <<script, bug_ids, bug_index, sessions, printed,
                              json_file, jsonl_file>>
               /\ UNCHANGED <<genVars, parserVars>>
            \/ Except("OSError")

\* Step 5 with the append of line 911 left out
generate_without_append ==
    /\ pc = "generate_debug_session"
    /\ \/ /\ session' = generate_debug_session(base_time, bug_info, test_outputs)
          /\ pc' = "for"
          /\ UNCHANGED <<base_time, bug, test_outputs, log_sequence,
                         investigation_timeline, root_cause_summary>>
          /\ UNCHANGED <<pipeVars, parserVars>>
       \/ Except("Exception")

\* Step 5 of mining_buggy_code_logs.py, lines 910-911, inside the try of
\* line 895: the session is appended only when the generator returns
GenerateDebugSession ==
    /\ pc = "generate_debug_session"
    /\ \/ /\ LET generated == generate_debug_session(base_time, bug_info, test_outputs)
             IN  /\ session' = generated
                 /\ sessions' = Append(sessions, generated)
          /\ pc' = "for"
          /\ UNCHANGED <<base_time, bug, test_outputs, log_sequence,
                         investigation_timeline, root_cause_summary>>
          /\ UNCHANGED <<script, bug_ids, bug_index, bug_info, printed,
                         failing_tests_log, json_file, jsonl_file>>
          /\ UNCHANGED parserVars
       \/ Except("Exception")

\* what 'defects4j bids' prints: n bug ids, one per line
BidsOutput(n) == Flatten([i \in 1..n |-> str_int(i) \o <<NL>>])

InitPipeline ==
    /\ pc = "for"
    /\ script \in {MainPy, MiningPy}
    /\ \E n \in 0..MaxBugs :
          bug_ids = IF script = MiningPy
                    THEN Take(get_all_bugs(BidsOutput(n)), BugsTaken)
                    ELSE get_all_bugs(BidsOutput(n))
    /\ bug_index = 0
    /\ bug_info = None
    /\ sessions = <<>>
    /\ printed = <<>>
    /\ failing_tests_log = <<>>
    /\ json_file = NoJsonFile /\ jsonl_file = None
    /\ GeneratorIdle
    /\ ParserIdle

NextPipeline ==
    \/ ForBugId
    \/ GetBugInfo
    \/ CheckoutBug
    \/ RunTests
    \/ ExportPatch
    \/ ExportPatchAndLog
    \/ GenerateDebugSession
    \/ ExportToJson
    \/ ExportToJsonl

SpecPipeline == InitPipeline /\ [][NextPipeline]_vars

\* the steps of the loop
ForLoop ==
    \/ ForBugId
    \/ GetBugInfo
    \/ CheckoutBug
    \/ RunTests
    \/ ExportPatch
    \/ ExportPatchAndLog
    \/ GenerateDebugSession

\* every call made in the loop returns or raises, so the loop takes its
\* next step as long as it has one
SpecPipelineFair == InitPipeline /\ [][NextPipeline]_vars /\ WF_vars(ForLoop)

----------------------------------------------------------------------------
(* Reading a session: the phase an entry belongs to *)

PhaseOfLog(e) ==
    LET m == e.message[1] IN
    CASE m \in {"Building ", "Running test suite ("} -> 1
      [] m \in {"Test failed: ", "Stack trace for "} -> 2
      [] m \in {"Starting code investigation", "Examining class: "} -> 3
      [] m \in {"Root cause identified: ", "Analyzing patch differences"} -> 4
      [] m \in {"Applying patch to fix bug", "Re-running tests after fix",
                "All tests passing after fix"} -> 5

PhaseOfStep(s) ==
    LET m == s[1] IN
    CASE m \in {"Started investigating ", "Executed test suite to reproduce issue"} -> 1
      [] m = "Identified failing test: " -> 2
      [] m \in {"Began examining modified classes", "Analyzed "} -> 3
      [] m \in {"Discovered root cause: ", "Reviewed patch to understand fix"} -> 4
      [] m \in {"Applied patch from fixed version", "Verified fix by re-running tests",
                "Confirmed all tests now pass"} -> 5

LogsOfPhase(n) == SelectSeq(log_sequence, LAMBDA e : PhaseOfLog(e) = n)
StepsOfPhase(n) == SelectSeq(investigation_timeline, LAMBDA s : PhaseOfStep(s) = n)

\* the phases that have run
PhasesRun ==
    CASE pc = "setup" -> {}
      [] pc = "failure" -> {1}
      [] pc = "investigation" -> {1, 2}
      [] pc = "discovery" -> {1, 2, 3}
      [] pc = "resolution" -> {1, 2, 3, 4}
      [] OTHER -> {1, 2, 3, 4, 5}

\* order of two timestamps as texts
TsLeq(a, b) ==
    \/ a[1] < b[1]
    \/ a[1] = b[1] /\ a[2] < b[2]
    \/ a[1] = b[1] /\ a[2] = b[2] /\ a[3] <= b[3]

NoFailingOutcome == \A i \in 1..Len(test_outputs) : test_outputs[i].status # "FAIL"

----------------------------------------------------------------------------
(* C1: the log_sequence of a session is in chronological order: no entry is
   stamped earlier than the entry before it, for any number of failing
   outcomes. *)
C1_Chronological ==
    \A i \in 1..(Len(log_sequence) - 1) :
        TsLeq(log_sequence[i].timestamp, log_sequence[i + 1].timestamp)

(* C2: the five phases are emitted in the fixed order Setup, Failure,
   Investigation, Discovery, Resolution in both log_sequence and timeline:
   an entry of an earlier phase precedes every entry of a later phase, and
   Setup, Investigation, Discovery and Resolution each contribute at least
   one entry, whatever the input. *)
C2_PhaseOrder ==
    /\ \A i, j \in 1..Len(log_sequence) :
          i < j => PhaseOfLog(log_sequence[i]) <= PhaseOfLog(log_sequence[j])
    /\ \A i, j \in 1..Len(investigation_timeline) :
          i < j => PhaseOfStep(investigation_timeline[i])
                     <= PhaseOfStep(investigation_timeline[j])
    /\ \A n \in PhasesRun \ {2} : LogsOfPhase(n) # <<>> /\ StepsOfPhase(n) # <<>>
    /\ \A n \in 1..5 : n \notin PhasesRun => LogsOfPhase(n) = <<>> /\ StepsOfPhase(n) = <<>>

C2_Witness ==
    /\ pc = "done"
    /\ test_outputs = <<>>
    /\ bug.modified_classes = <<>>
    /\ bug.patch = <<>>
    /\ Len(session.log_sequence) = 8

(* C3: when no outcome has status FAIL the Failure phase adds no log entry
   and no timeline entry, and the session holds 2 Setup entries,
   1 + min(3, number of modified classes) Investigation entries, 2 Discovery
   entries and 3 Resolution entries, in both log_sequence and timeline. *)
C3_NoFailureEntries ==
    (pc = "done" /\ NoFailingOutcome) =>
        LET n == 1 + Min(3, Len(bug.modified_classes)) IN
        /\ Len(LogsOfPhase(2)) = 0 /\ Len(StepsOfPhase(2)) = 0
        /\ Len(LogsOfPhase(1)) = 2 /\ Len(StepsOfPhase(1)) = 2
        /\ Len(LogsOfPhase(3)) = n /\ Len(StepsOfPhase(3)) = n
        /\ Len(LogsOfPhase(4)) = 2 /\ Len(StepsOfPhase(4)) = 2
        /\ Len(LogsOfPhase(5)) = 3 /\ Len(StepsOfPhase(5)) = 3
        /\ Len(session.log_sequence) = 7 + n
        /\ Len(session.investigation_timeline) = 7 + n

C3_Witness ==
    /\ pc = "done"
    /\ NoFailingOutcome
    /\ \E i \in 1..Len(test_outputs) :
          test_outputs[i].status = "ERROR" /\ Truthy(test_outputs[i].stack_trace)
    /\ \E i \in 1..Len(test_outputs) : test_outputs[i].status = "PASS"
    /\ Len(session.log_sequence) = 8 + Len(bug.modified_classes)

(* C4: for a bug with more than three modified classes the Investigation
   phase produces exactly four log entries: the start entry, whose metadata
   lists all modified classes, then one 'Examining class' entry for each of
   the first three classes in their original order; later classes get no
   entry and no timeline line. *)
C4_ThreeClassesNarrated ==
    (3 \in PhasesRun /\ Len(bug.modified_classes) > 3) =>
        LET logs == LogsOfPhase(3)
            steps == StepsOfPhase(3)
        IN  /\ Len(logs) = 4
            /\ logs[1].message = <<"Starting code investigation">>
            /\ logs[1].metadata.modified_classes = bug.modified_classes
            /\ \A i \in 1..3 :
                  /\ logs[i + 1].message = <<"Examining class: ", bug.modified_classes[i]>>
                  /\ logs[i + 1].metadata.class = bug.modified_classes[i]
            /\ steps = << <<"Began examining modified classes">>,
                          <<"Analyzed ", bug.modified_classes[1]>>,
                          <<"Analyzed ", bug.modified_classes[2]>>,
                          <<"Analyzed ", bug.modified_classes[3]>> >>

C4_Witness ==
    /\ pc = "done"
    /\ Len(bug.modified_classes) > 3
    /\ Len(SelectSeq(session.log_sequence, LAMBDA e : PhaseOfLog(e) = 3)) = 4

\* the patch text holds the keyword, upper and lower case taken as equal
HasKeyword(patch, kw) ==
    \E i \in 1..Len(patch) :
        /\ i + Len(kw) - 1 <= Len(patch)
        /\ \A k \in 1..Len(kw) : LowerChar(patch[i + k - 1]) = kw[k]

\* the category named by the Discovery phase
NamedCategories ==
    {log_sequence[i].message[2] : i \in {k \in 1..Len(log_sequence) :
        log_sequence[k].message[1] = "Root cause identified: "}}

(* C5: root-cause inference follows a strict precedence, matched
   case-insensitively: empty patch gives the logic error; otherwise 'null'
   gives the null-handling issue whatever else the patch holds; otherwise
   'bound' or 'index' the bounds error; otherwise 'assert' the assertion
   error; otherwise '==' or '!=' the comparison error; otherwise the logic
   error.  Exactly one category is named. *)
C5_RootCausePrecedence ==
    (4 \in PhasesRun) =>
        LET p == bug.patch
            hasNull == HasKeyword(p, kwNull)
            hasBound == HasKeyword(p, kwBound) \/ HasKeyword(p, kwIndex)
            hasAssert == HasKeyword(p, kwAssert)
            hasCmp == HasKeyword(p, kwEq) \/ HasKeyword(p, kwNeq)
        IN  /\ Cardinality(NamedCategories) = 1
            /\ p = <<>> => NamedCategories = {"Logic error in implementation"}
            /\ hasNull => NamedCategories = {"Null pointer handling issue"}
            /\ (~hasNull /\ hasBound) =>
                  NamedCategories = {"Array bounds or indexing error"}
            /\ (~hasNull /\ ~hasBound /\ hasAssert) =>
                  NamedCategories = {"Assertion or validation error"}
            /\ (~hasNull /\ ~hasBound /\ ~hasAssert /\ hasCmp) =>
                  NamedCategories = {"Comparison or equality check error"}
            /\ (~hasNull /\ ~hasBound /\ ~hasAssert /\ ~hasCmp) =>
                  NamedCategories = {"Logic error in implementation"}

C5_Witness ==
    /\ pc = "done"
    /\ HasKeyword(bug.patch, kwNull)
    /\ HasKeyword(bug.patch, kwBound)
    /\ ~Contains(bug.patch, kwNull)
    /\ NamedCategories = {"Null pointer handling issue"}

----------------------------------------------------------------------------
(* Reading a text line by line *)

\* Python: s.split("\n")
RECURSIVE SplitLines(_)
SplitLines(s) ==
    LET at == {i \in 1..Len(s) : s[i] = NL} IN
    IF at = {} THEN <<s>>
    ELSE <<SubSeq(s, 1, MinOf(at) - 1)>> \o SplitLines(SubSeq(s, MinOf(at) + 1, Len(s)))

StartsWith(s, prefix) == Len(prefix) <= Len(s) /\ SubSeq(s, 1, Len(prefix)) = prefix

IsIndented(l) == l # <<>> /\ l[1] \in {" ", TAB}

\* the lines of the triggering-tests block: the indented lines that follow
\* the first header line
TestsBlockLines ==
    LET ls == SplitLines(info_output)
        hs == {i \in 1..Len(ls) : ls[i] = <<TestsHeader>>}
    IN  IF hs = {} THEN <<>>
        ELSE LET h == MinOf(hs)
                 last == Max({e \in h..Len(ls) : \A i \in (h + 1)..e : IsIndented(ls[i])})
             IN  SubSeq(ls, h + 1, last)

IsBulleted(l) == StartsWith(strip(l), <<"-", " ">>)
IsContinuation(l) == StartsWith(strip(l), <<"-", "-", ">">>)

BulletedIdentifiers(ls) ==
    LET bs == SelectSeq(ls, IsBulleted)
    IN  [i \in 1..Len(bs) |-> strip(Tail(strip(bs[i])))]

(* C6: for tool-info text with a triggering-tests block, triggering_tests is
   exactly the identifiers of the bulleted lines of the block, in order of
   appearance, with no entry for a continuation line ('--> detail'); also
   for a block whose last line is the end of the text. *)
C6_BulletedIdentifiers ==
    (pc \in {"done", "done_mining"} /\ TestsBlockLines # <<>>) =>
        info.triggering_tests = BulletedIdentifiers(TestsBlockLines)

HasSymbol(s, c) == \E i \in 1..Len(s) : s[i] = c

InfoKeys == {"triggering_tests", "bug_report_url", "modified_classes", "patch"}

(* C7: _parse_bug_info returns for any text; each of the three sections
   that is absent yields its default whatever the other sections hold
   (triggering_tests the empty list, bug_report_url the empty string,
   modified_classes the empty list). *)
C7_AbsentSectionDefaults ==
    /\ pc = "parse_bug_info" =>
          \A strict \in BOOLEAN :
              DOMAIN _parse_bug_info(info_output, strict) = InfoKeys
    /\ pc \in {"done", "done_mining"} =>
          /\ DOMAIN info = InfoKeys
          /\ ~HasSymbol(info_output, TestsHeader) => info.triggering_tests = <<>>
          /\ ~HasSymbol(info_output, UrlHeader) => info.bug_report_url = <<>>
          /\ ~HasSymbol(info_output, SourcesHeader) => info.modified_classes = <<>>

C7_Witness ==
    /\ pc = "done"
    /\ HasSymbol(info_output, TestsHeader)
    /\ ~HasSymbol(info_output, UrlHeader)
    /\ ~HasSymbol(info_output, SourcesHeader)
    /\ Len(info.triggering_tests) = 2
    /\ info.bug_report_url = <<>>
    /\ info.modified_classes = <<>>

\* a '--- ' header line
IsHeaderLine(l) == StartsWith(l, <<"-", "-", "-">>) /\ Len(l) >= 4 /\ IsWs(l[4])

\* the header line '--- <name>' of name v, nothing else on the line
IsHeaderOf(l, v) == IsHeaderLine(l) /\ strip(SubSeq(l, 4, Len(l))) = v

\* the header line of name v, with or without more text on the line
IsHeaderWith(l, v) ==
    /\ IsHeaderLine(l)
    /\ StartsWith(strip(SubSeq(l, 4, Len(l))), v)
    /\ LET rest == SubSeq(strip(SubSeq(l, 4, Len(l))), Len(v) + 1,
                          Len(strip(SubSeq(l, 4, Len(l)))))
       IN  rest = <<>> \/ IsWs(rest[1])

HasHeader(v) ==
    \E i \in 1..Len(SplitLines(content)) : IsHeaderWith(SplitLines(content)[i], v)

\* the text between the first header line of v and the next header line or
\* the end of the report, without its leading and trailing blank lines
BlockOf(v) ==
    LET ls == SplitLines(content)
        h == MinOf({i \in 1..Len(ls) : IsHeaderWith(ls[i], v)})
        n == MinOf({i \in (h + 1)..(Len(ls) + 1) : i = Len(ls) + 1 \/ IsHeaderLine(ls[i])})
    IN  strip(join(SubSeq(ls, h + 1, n - 1), <<NL>>))

\* no header line of the report has text after the name
PlainHeaders ==
    \A i \in 1..Len(SplitLines(content)) :
        LET l == SplitLines(content)[i] IN
        IsHeaderLine(l) => ~HasSymbol(strip(SubSeq(l, 4, Len(l))), " ")

(* C8: when a header line '--- <name>' matches the requested test, the
   result is exactly the text between that header line and the next '--- '
   header line (or the end of the text), leading and trailing blank lines
   removed; never text of another header's block or of another header line,
   also when the matched header's own block is empty. *)
C8_ExactBlock ==
    (pc = "done" /\ content # None /\ error_section # None /\ PlainHeaders) =>
        /\ HasHeader(variant)
        /\ strip(error_section) = BlockOf(variant)

(* C9: the variants are tried in the order (1) the identifier as given,
   (2) '::' replaced by '.', (3) the class part before '::'; the result is
   the block of the first of them that has a header with non-empty content,
   a variant with an empty block being skipped; the result is None exactly
   when no variant has a header with non-empty content. *)
C9_FirstNonEmptyVariant ==
    (pc = "done" /\ content # None /\ PlainHeaders) =>
        LET vs == << test_name,
                     replace(test_name, <<":", ":">>, <<".">>),
                     split_first(test_name, <<":", ":">>) >>
            good == {i \in 1..3 : HasHeader(vs[i]) /\ BlockOf(vs[i]) # <<>>}
        IN  IF good = {} THEN error_section = None
            ELSE /\ error_section # None
                 /\ strip(error_section) = BlockOf(vs[MinOf(good)])

(* C10: _parse_single_test_result returns status PASS if and only if
   stdout contains the literal 'Failing tests: 0' and FAIL for every other
   stdout, the empty one included; test_name is the argument and
   error_message and stack_trace are None. *)
C10_PassIffMarker ==
    (pc = "done" /\ stdout # None) =>
        LET marked == \E i \in 1..(Len(stdout) - 1) :
                          stdout[i] = FailingTests /\ stdout[i + 1] = "0"
        IN  /\ marked => output.status = "PASS"
            /\ ~marked => output.status = "FAIL"
            /\ output.test_name = test_name
            /\ output.error_message = None
            /\ output.stack_trace = None

C10_Witness ==
    /\ pc = "done"
    /\ stdout # None
    /\ Len(stdout) = 4
    /\ stdout[1] = "1" /\ stdout[2] = NL
    /\ stdout[3] = FailingTests /\ stdout[4] = "0"
    /\ output.status = "PASS"

----------------------------------------------------------------------------
\* the failing outcomes that carry an error message
ErrorCarriers ==
    {i \in 1..Len(test_outputs) :
        test_outputs[i].status = "FAIL" /\ Truthy(test_outputs[i].error_message)}

(* C13: the root-cause summary is 'Bug in {project} (#{bug_id}): {N} test(s)
   failed. Root cause located in {first two modified classes}. ' with N the
   number of FAIL outcomes, and an 'Error: ...' excerpt of at most the first
   100 characters of an error message, followed by an ellipsis, is appended
   if and only if at least one failing outcome, at any position, carries a
   non-empty error message. *)
C13_ExcerptIffAnyFailingCarriesError ==
    pc \in {"return", "done"} =>
        LET N == Cardinality({i \in 1..Len(test_outputs) :
                                 test_outputs[i].status = "FAIL"})
            head == <<"Bug in ", bug.project, " (#", bug.bug_id, "): ",
                      N, " test(s) failed. ",
                      "Root cause located in ", Take(bug.modified_classes, 2), ". ">>
        IN  IF ErrorCarriers = {}
            THEN root_cause_summary = head
            ELSE \E i \in ErrorCarriers :
                    root_cause_summary =
                        head \o <<"Error: ",
                                  Take(test_outputs[i].error_message, 100), "...">>

----------------------------------------------------------------------------
\* what the Failure phase is said to log for the failing outcomes, in order
FailingOutcomes == SelectSeq(test_outputs, LAMBDA o : o.status = "FAIL")

FirstChars(s, n) == SubSeq(s, 1, IF Len(s) < n THEN Len(s) ELSE n)

SaidFailureEntries ==
    Flatten([k \in 1..Len(FailingOutcomes) |->
        LET o == FailingOutcomes[k]
            failed == [level |-> "ERROR",
                       message |-> <<"Test failed: ", o.test_name>>,
                       stack_trace |-> None]
            trace == [level |-> "ERROR",
                      message |-> <<"Stack trace for ", o.test_name>>,
                      stack_trace |-> FirstChars(o.stack_trace, 500)]
        IN  IF o.stack_trace # None /\ o.stack_trace # <<>>
            THEN <<failed, trace>> ELSE <<failed>>])

\* the Failure-phase entries of the log, reduced to the same three fields
LoggedFailureEntries ==
    LET logs == LogsOfPhase(2) IN
    [i \in 1..Len(logs) |->
        [level |-> logs[i].level,
         message |-> logs[i].message,
         stack_trace |-> IF logs[i].message[1] = "Stack trace for "
                         THEN logs[i].metadata.stack_trace ELSE None]]

(* C14: in the Failure phase each FAIL outcome produces, in input order,
   exactly one ERROR-level 'Test failed' log entry, immediately followed by
   one 'Stack trace' entry if and only if its stack_trace is non-empty, that
   entry carrying at most the first 500 characters of the trace; each FAIL
   outcome produces exactly one timeline line; outcomes with status PASS or
   ERROR produce no entry at all. *)
C14_FailureEntries ==
    2 \in PhasesRun =>
        /\ LoggedFailureEntries = SaidFailureEntries
        /\ StepsOfPhase(2) =
              [k \in 1..Len(FailingOutcomes) |->
                  <<"Identified failing test: ", FailingOutcomes[k].test_name>>]

C14_Witness ==
    /\ pc = "done"
    /\ Len(test_outputs) = 2
    /\ test_outputs[1].status = "FAIL" /\ Len(test_outputs[1].stack_trace) = 501
    /\ test_outputs[2].status = "FAIL" /\ test_outputs[2].stack_trace = <<>>
    /\ Len(LogsOfPhase(2)) = 3
    /\ Len(session.log_sequence[4].metadata.stack_trace) = 500

----------------------------------------------------------------------------
\* the instant base_time + d, as the log stamps it
At(d) == isoformat(base_time + d)

\* the offset from the session start at which the i-th Failure-phase entry
\* is said to be stamped: 10 seconds for the first one, 1 second after the
\* entry before it for a stack trace, 2 seconds after it for a failure
RECURSIVE SaidFailureOffset(_, _)
SaidFailureOffset(logs, i) ==
    IF i = 1 THEN 10
    ELSE SaidFailureOffset(logs, i - 1)
           + (IF logs[i].message[1] = "Stack trace for " THEN 1 ELSE 2)

(* C15: Failure-phase timestamps start at t+10s: the log entry of the first
   FAIL outcome is stamped session start + 10 seconds, each later FAIL
   outcome's entry is stamped 2 seconds after the previous Failure-phase
   entry, and a stack-trace entry is stamped 1 second after the failure
   entry it belongs to. *)
C15_FailureTimestamps ==
    2 \in PhasesRun =>
        LET logs == LogsOfPhase(2) IN
        \A i \in 1..Len(logs) :
            logs[i].timestamp = At(SaidFailureOffset(logs, i))

----------------------------------------------------------------------------
\* the timestamps of the log entries of phase n, in order
StampsOfPhase(n) ==
    LET logs == LogsOfPhase(n) IN [i \in 1..Len(logs) |-> logs[i].timestamp]

(* C16: every session carries the fixed offsets of the other phases,
   whatever the test outcomes: Setup entries at t+0s and t+5s, the
   Investigation start at t+60s and the i-th narrated class (i = 1..3) at
   t+60s+10i, Discovery entries at t+120s and t+125s, Resolution entries at
   t+180s, t+190s and t+195s. *)
C16_FixedOffsets ==
    /\ 1 \in PhasesRun => StampsOfPhase(1) = <<At(0), At(5)>>
    /\ 3 \in PhasesRun =>
          StampsOfPhase(3) =
              <<At(60)>> \o [i \in 1..Min(3, Len(bug.modified_classes)) |->
                                At(60 + 10 * i)]
    /\ 4 \in PhasesRun => StampsOfPhase(4) = <<At(120), At(125)>>
    /\ 5 \in PhasesRun => StampsOfPhase(5) = <<At(180), At(190), At(195)>>

C16_Witness ==
    /\ pc = "done"
    /\ base_time = 3595
    /\ Len(bug.modified_classes) = 4
    /\ Len(FailingOutcomes) = 2
    /\ Truthy(test_outputs[1].stack_trace)
    /\ StampsOfPhase(3) = <<<<1, 0, 55>>, <<1, 1, 5>>, <<1, 1, 15>>, <<1, 1, 25>>>>
    /\ StampsOfPhase(5) = <<<<1, 2, 55>>, <<1, 3, 5>>, <<1, 3, 10>>>>

----------------------------------------------------------------------------
\* two outcome lists that differ at most in the outcomes' timestamp fields
SameOutcomes(a, b) ==
    /\ Len(a) = Len(b)
    /\ \A i \in 1..Len(a) :
          /\ a[i].test_name = b[i].test_name
          /\ a[i].status = b[i].status
          /\ a[i].error_message = b[i].error_message
          /\ a[i].stack_trace = b[i].stack_trace
          /\ a[i].execution_time = b[i].execution_time

(* C17: log synthesis is deterministic: two calls with the same bug, the
   same outcomes and the same session-start instant return identical
   log_sequence, timeline and root_cause_summary; the calls made before on
   the same generator and the outcomes' own timestamp fields do not
   influence the result. *)
C17_Deterministic ==
    pc = "done" =>
        \A k \in 1..Len(sessions) :
            (/\ sessions[k].bug_info = session.bug_info
             /\ SameOutcomes(sessions[k].test_outputs, session.test_outputs)) =>
                /\ sessions[k].log_sequence = session.log_sequence
                /\ sessions[k].investigation_timeline = session.investigation_timeline
                /\ sessions[k].root_cause_summary = session.root_cause_summary

C17_Witness ==
    /\ pc = "done"
    /\ Len(sessions) = 2
    /\ Len(session.test_outputs) = 2
    /\ session.test_outputs[1].status = "FAIL"
    /\ SameOutcomes(sessions[1].test_outputs, session.test_outputs)
    /\ sessions[1].test_outputs[1].timestamp # session.test_outputs[1].timestamp
    /\ ~SameOutcomes(sessions[2].test_outputs, session.test_outputs)
    /\ sessions[2].log_sequence # session.log_sequence
    /\ sessions[1].log_sequence = session.log_sequence

----------------------------------------------------------------------------
(* Reading a JSONL file back *)

\* the lines of a text: the pieces that end with a newline, and what is
\* left after the last newline if anything is
FileLines(text) ==
    LET ends == {i \in 1..Len(text) : text[i] = NL}
        last == IF ends = {} THEN 0 ELSE Max(ends)
        nth(k) == CHOOSE p \in ends : Cardinality({q \in ends : q <= p}) = k
        terminated == [k \in 1..Cardinality(ends) |->
                          SubSeq(text, IF k = 1 THEN 1 ELSE nth(k - 1) + 1, nth(k) - 1)]
    IN  IF last < Len(text)
        THEN Append(terminated, SubSeq(text, last + 1, Len(text)))
        ELSE terminated

\* the number of backslashes right before position j of l
BackslashRun(l, j) ==
    Max({k \in 0..(j - 1) : \A m \in 1..k : l[j - m] = BACKSLASH})

\* the quotes of l that open or close a string
BareQuotes(l) ==
    {j \in 1..Len(l) : l[j] = QUOTE /\ BackslashRun(l, j) % 2 = 0}

\* the brackets and braces of l outside strings
Brackets(l, quotes) ==
    {j \in 1..Len(l) : /\ l[j] \in {"{", "}", "[", "]"}
                       /\ Cardinality({q \in quotes : q < j}) % 2 = 0}

\* the nesting depth after position j
DepthAfter(l, brackets, j) ==
    Cardinality({b \in brackets : b <= j /\ l[b] \in {"{", "["}})
      - Cardinality({b \in brackets : b <= j /\ l[b] \in {"}", "]"}})

\* l is one JSON object, from its first symbol to its last
IsCompleteRecord(l) ==
    LET quotes == BareQuotes(l)
        brackets == Brackets(l, quotes)
    IN  /\ l # <<>>
        /\ l[1] = "{" /\ l[Len(l)] = "}"
        /\ 1 \in brackets /\ Len(l) \in brackets
        /\ Cardinality(quotes) % 2 = 0
        /\ DepthAfter(l, brackets, Len(l)) = 0
        /\ \A b \in brackets \ {Len(l)} : DepthAfter(l, brackets, b) >= 1

\* the positions <<j, q>> of the quotes of the keys of the object l
KeyQuotes(l) ==
    LET quotes == BareQuotes(l)
        brackets == Brackets(l, quotes)
        opening == {j \in quotes : Cardinality({q \in quotes : q < j}) % 2 = 0}
        closing(j) == MinOf({q \in quotes : q > j})
    IN  {<<j, closing(j)>> :
            j \in {o \in opening :
                      /\ DepthAfter(l, brackets, o) = 1
                      /\ closing(o) < Len(l)
                      /\ l[closing(o) + 1] = ": "}}

\* the text between the quotes of the string that is the value of the key
\* at keyQuotes
RawValueAt(l, jq) ==
    LET open == jq[2] + 2
        close == MinOf({q \in BareQuotes(l) : q > open})
    IN  SubSeq(l, open + 1, close - 1)

\* one line read back: whether it is a complete record, its keys in order
\* of appearance and the texts of its string values
ReadRecord(l) ==
    LET keyQuotes == KeyQuotes(l)
        keyAt(jq) == SubSeq(l, jq[1] + 1, jq[2] - 1)
        valueOf(k) == RawValueAt(l, CHOOSE jq \in keyQuotes : keyAt(jq) = <<k>>)
    IN  [complete |-> IsCompleteRecord(l),
         fields |-> Cardinality(keyQuotes),
         keys |-> {keyAt(jq) : jq \in keyQuotes},
         bug_id |-> valueOf("bug_id"),
         root_cause |-> valueOf("root_cause")]

\* json.loads of the inside of a string
RECURSIVE Unescape(_)
Unescape(raw) ==
    IF raw = <<>> THEN <<>>
    ELSE IF raw[1] = BACKSLASH
         THEN << CASE raw[2] = "n" -> NL
                   [] raw[2] = "t" -> TAB
                   [] raw[2] = "r" -> CR
                   [] OTHER -> raw[2] >> \o Unescape(SubSeq(raw, 3, Len(raw)))
         ELSE <<raw[1]>> \o Unescape(Tail(raw))

JsonlFields == {<<"bug_id">>, <<"project">>, <<"logs">>, <<"timeline">>, <<"root_cause">>}

(* C11: export_to_jsonl followed by reading the file back is a round trip on
   record count and shape: for every list of N sessions (N >= 0) the file
   holds exactly N lines, line i is one complete record for session i of the
   input, and every record has exactly the five fields bug_id, project,
   logs, timeline and root_cause, whatever characters (newlines included)
   the messages, the error texts or the summaries contain. *)
C11_JsonlRoundTrip ==
    pc = "exported" =>
        LET lines == FileLines(jsonl_file) IN
        /\ Len(lines) = Len(sessions)
        /\ \A i \in 1..Len(lines) :
              LET record == ReadRecord(lines[i]) IN
              /\ record.complete
              /\ record.fields = 5
              /\ record.keys = JsonlFields
              /\ Unescape(record.bug_id) =
                    sessions[i].bug_info.project \o <<"_">> \o sessions[i].bug_info.bug_id
              /\ Unescape(record.root_cause) = render(sessions[i].root_cause_summary)

C11_Witness ==
    /\ pc = "exported"
    /\ Len(sessions) = 2
    /\ sessions[1].bug_info.bug_id = <<"2">>
    /\ sessions[2].bug_info.bug_id = <<"1">>
    /\ Len(sessions[1].test_outputs) = 1
    /\ Contains(sessions[1].test_outputs[1].error_message, <<NL>>)
    /\ Contains(sessions[1].root_cause_summary[12], <<NL, QUOTE>>)
    /\ Contains(jsonl_file, <<BACKSLASH, "n", BACKSLASH, QUOTE, BACKSLASH, BACKSLASH>>)
    /\ Cardinality({i \in 1..Len(jsonl_file) : jsonl_file[i] = NL}) = 2

----------------------------------------------------------------------------
JsonFields == {"bug_id", "project", "bug_info", "logs", "timeline", "root_cause",
               "test_failures"}

(* C12: export_to_json writes one array with exactly one object per input
   session, in input order, each with the seven fields bug_id, project,
   bug_info, logs, timeline, root_cause and test_failures, where bug_id is
   '<project>_<bug_id>', logs has one element per log_sequence entry in
   order and test_failures has one element per test_outputs entry in order,
   the outcomes with status PASS included. *)
C12_JsonDocument ==
    pc \in {"export_to_jsonl", "exported"} =>
        /\ Len(json_file.objects) = Len(sessions)
        /\ \A i \in 1..Len(sessions) :
              LET s == sessions[i]
                  object == json_file.objects[i]
              IN  /\ DOMAIN object = JsonFields
                  /\ object.bug_id = s.bug_info.project \o <<"_">> \o s.bug_info.bug_id
                  /\ object.project = s.bug_info.project
                  /\ Len(object.logs) = Len(s.log_sequence)
                  /\ \A k \in 1..Len(s.log_sequence) :
                        /\ object.logs[k].message = s.log_sequence[k].message
                        /\ object.logs[k].timestamp = s.log_sequence[k].timestamp
                  /\ object.timeline = s.investigation_timeline
                  /\ object.root_cause = s.root_cause_summary
                  /\ Len(object.test_failures) = Len(s.test_outputs)
                  /\ \A k \in 1..Len(s.test_outputs) :
                        /\ object.test_failures[k].test_name = s.test_outputs[k].test_name
                        /\ object.test_failures[k].status = s.test_outputs[k].status

C12_Witness ==
    /\ pc = "exported"
    /\ Len(json_file.objects) = 2
    /\ json_file.objects[1].bug_id = <<"L", "_", "2">>
    /\ json_file.objects[2].bug_id = <<"L", "_", "1">>
    /\ Len(json_file.objects[1].test_failures) = 2
    /\ json_file.objects[1].test_failures[1].status = "PASS"
    /\ json_file.objects[1].test_failures[2].status = "FAIL"
    /\ Len(json_file.objects[2].logs) = 11

-----------------------------------------------------------------------------
(* The loop over the bug ids *)

\* the bug ids of the "Processing" lines, in the order printed
Attempted ==
    LET lines == SelectSeq(printed, LAMBDA l : l[1] = "Processing ")
    IN  [i \in 1..Len(lines) |-> lines[i][4]]

\* the bug ids of the "Error processing" lines
Failed ==
    {printed[i][4] : i \in {j \in 1..Len(printed) : printed[j][1] = "Error processing "}}

\* the bugs the loop is through with: all before the current one, and the
\* current one once the loop is back at its head or over
Finished ==
    IF pc \in {"get_bug_info", "checkout_bug", "run_tests", "export_patch",
               "generate_debug_session"}
    THEN SubSeq(bug_ids, 1, bug_index - 1)
    ELSE SubSeq(bug_ids, 1, bug_index)

SessionBugIds == [i \in 1..Len(sessions) |-> sessions[i].bug_info.bug_id]

\* C18: in mining_buggy_code_logs.py the sessions are, in the order of the
\* bug ids, one session for each finished bug that raised no exception and
\* none for a bug that raised one or is still being processed; there are
\* never more sessions than bugs processed so far.
C18_OneSessionPerSucceedingBug ==
    script = MiningPy =>
        /\ SessionBugIds = SelectSeq(Finished, LAMBDA id : id \notin Failed)
        /\ \A i \in 1..Len(sessions) : sessions[i].bug_info.project = Project
        /\ Len(sessions) <= bug_index

\* two bugs are through: the first raised at checkout, the second gave the
\* only session
C18_Witness ==
    /\ script = MiningPy
    /\ pc = "export_to_json"
    /\ Len(bug_ids) = 2
    /\ Failed = {bug_ids[1]}
    /\ \E i \in 1..Len(printed) :
          /\ printed[i][1] = "Error processing "
          /\ printed[i][6] = "CalledProcessError"
    /\ SessionBugIds = <<bug_ids[2]>>

\* the handler has just printed its line
ExceptionCaught ==
    /\ Len(printed') = Len(printed) + 1
    /\ printed'[Len(printed')][1] = "Error processing "

LoopOver == pc \in {"main_done", "export_to_json", "export_to_jsonl", "exported"}

\* C19: in both scripts the bug ids attempted so far are the first
\* bug_index ids of the list, each once and in list order; a caught
\* exception puts the loop back at its head with the next bug id to take;
\* and whatever bugs fail, the run gets to the end of the loop with every
\* bug id attempted: main.py is done, mining_buggy_code_logs.py is at its
\* export step.
C19_ExceptionNeverStopsPipeline ==
    /\ [](Attempted = SubSeq(bug_ids, 1, bug_index))
    /\ [][ExceptionCaught => pc' = "for" /\ bug_index' = bug_index]_vars
    /\ [](LoopOver => Attempted = bug_ids)
    /\ <>(/\ Attempted = bug_ids
          /\ pc = IF script = MainPy THEN "main_done" ELSE "export_to_json")

\* every bug of two raised, each at another step, and the script is at its
\* export step all the same, with no session
C19_Witness ==
    /\ script = MiningPy
    /\ pc = "export_to_json"
    /\ Len(bug_ids) = 2
    /\ Attempted = bug_ids
    /\ Failed = {bug_ids[1], bug_ids[2]}
    /\ \E i, j \in 1..Len(printed) :
          /\ printed[i][1] = "Error processing "
          /\ printed[j][1] = "Error processing "
          /\ printed[i][6] # printed[j][6]
    /\ sessions = <<>>

\* no tool invocation made for the bug raised: its "Error processing" lines,
\* if any, name no error of a subprocess call
ToolsSucceeded(id) ==
    \A i \in 1..Len(printed) :
        printed[i][1] = "Error processing " /\ printed[i][4] = id
            => printed[i][6] \notin {"OSError", "CalledProcessError"}

\* the records main.py can write for the bug: one for each report URL the
\* info query can give and each patch text the export can give
RecordsOf(id) ==
    {failing_tests_record(Project, id,
         [bug_report_url |-> get_bug_info(Project, id, out, TRUE).bug_report_url,
          patch |-> export_patch(r[1], r[2], r[3])]) :
        out \in InfoOutputs, r \in PatchExports}

Logged(id) ==
    \E rec \in RecordsOf(id) :
        \E p \in 1..Len(failing_tests_log) :
            /\ p + Len(rec) - 1 <= Len(failing_tests_log)
            /\ SubSeq(failing_tests_log, p, p + Len(rec) - 1) = rec

\* C20: when main.py is done, 'failing_tests.log' holds, for every bug id
\* whose tool invocations all succeeded, a record with the bug's report URL
\* and its patch text.
C20_EveryBugLogged ==
    script = MainPy /\ pc = "main_done" =>
        \A i \in 1..Len(bug_ids) : ToolsSucceeded(bug_ids[i]) => Logged(bug_ids[i])

-----------------------------------------------------------------------------
(* Calls of single methods of Defects4JManager *)

\* what a call comes to: the value returned, or the exception that leaves it
Return(v) == [raised |-> "", value |-> v]

Raise(e) == [raised |-> e, value |-> None]

\* subprocess.run(..., check=True): the exception raised on this return code
check_true(returncode) == IF returncode # 0 THEN "CalledProcessError" ELSE ""

\* a handler for another exception of subprocess
except_TimeoutExpired == "TimeoutExpired"

\* defects_manager.py line 49: except subprocess.CalledProcessError
except_CalledProcessError == "CalledProcessError"

\* defects_manager.py line 53: the list returned by the handler
FallbackProjects ==
    << <<"C", "h", "a", "r", "t">>, <<"C", "l", "o", "s", "u", "r", "e">>,
       <<"L", "a", "n", "g">>, <<"M", "a", "t", "h">>,
       <<"M", "o", "c", "k", "i", "t", "o">>, <<"T", "i", "m", "e">> >>

\* get_all_projects: run is what subprocess.run gives, a return code and the
\* stdout captured
get_all_projects(run) ==
    LET e == check_true(run.returncode) IN
    IF e = ""
    THEN LET projects == split_lines(strip(run.stdout))
             kept == SelectSeq(projects, LAMBDA p : strip(p) # <<>>)
         IN  Return([i \in 1..Len(kept) |-> strip(kept[i])])
    ELSE IF e = except_CalledProcessError
         THEN Return(FallbackProjects)
         ELSE Raise(e)

\* Defects4JManager.__init__: self.projects = self.get_all_projects()
GetAllProjects ==
    /\ pc = "get_all_projects"
    /\ commands' = Append(commands, "defects4j pids")
    /\ returned' = get_all_projects(tool)
    /\ pc' = "projects_listed"
    /\ UNCHANGED <<args, tool>>
    /\ UNCHANGED <<info_output, info, content, test_name, variant, error_section,
                   stdout, output>>
    /\ UNCHANGED <<genVars, pipeVars>>

MaxPids == 4           \* longest output of 'defects4j pids', in characters

PidsSymbols == {"A", "b", " ", NL, CR}

InitProjects ==
    /\ pc = "get_all_projects"
    /\ args = <<>>
    /\ tool \in [returncode : {0, 1, 127}, stdout : SeqsUpTo(PidsSymbols, MaxPids)]
    /\ commands = <<>>
    /\ returned = None
    /\ info_output = None /\ info = None
    /\ content = None /\ test_name = None /\ variant = None /\ error_section = None
    /\ stdout = None /\ output = None
    /\ GeneratorIdle
    /\ PipelineIdle

NextProjects == GetAllProjects

SpecProjects == InitProjects /\ [][NextProjects]_vars

\* the lines of a text that are not blank, each without the white space
\* around it
IsBlank(l) == \A i \in 1..Len(l) : IsWs(l[i])

Trimmed(l) ==
    LET first == MinOf({i \in 1..Len(l) : ~IsWs(l[i])})
        last == Max({i \in 1..Len(l) : ~IsWs(l[i])})
    IN  SubSeq(l, first, last)

NonBlankLines(text) ==
    LET lines == SelectSeq(SplitLines(text), LAMBDA l : ~IsBlank(l))
    IN  [i \in 1..Len(lines) |-> Trimmed(lines[i])]

\* C21: get_all_projects never raises because of the return code of
\* 'defects4j pids': on a non-zero return code it returns the fallback list
\* Chart, Closure, Lang, Math, Mockito, Time, and on return code 0 the
\* non-blank lines of the output, stripped, in output order.
C21_FallbackOrListedProjects ==
    pc = "projects_listed" =>
        /\ returned.raised = ""
        /\ returned.value =
              IF tool.returncode # 0
              THEN << <<"C", "h", "a", "r", "t">>, <<"C", "l", "o", "s", "u", "r", "e">>,
                      <<"L", "a", "n", "g">>, <<"M", "a", "t", "h">>,
                      <<"M", "o", "c", "k", "i", "t", "o">>, <<"T", "i", "m", "e">> >>
              ELSE NonBlankLines(tool.stdout)

\* the tool exits with 1 having printed two names: the fallback list is
\* returned
C21_Witness ==
    /\ pc = "projects_listed"
    /\ tool.returncode = 1
    /\ tool.stdout = <<"A", NL, "b">>
    /\ Len(returned.value) = 6

\* the tool exits with 0 having printed a blank line between two names
C21_WitnessListed ==
    /\ pc = "projects_listed"
    /\ tool.returncode = 0
    /\ tool.stdout = <<"A", NL, " ", NL>>
    /\ returned.value = << <<"A">> >>

\* a call of _parse_test_output(stdout, stderr)
ParseTestOutput ==
    /\ pc = "parse_test_output"
    /\ returned' = Return(_parse_test_output(args.stdout))
    /\ pc' = "test_output_parsed"
    /\ UNCHANGED <<args, tool, commands>>
    /\ UNCHANGED <<info_output, info, content, test_name, variant, error_section,
                   stdout, output>>
    /\ UNCHANGED <<genVars, pipeVars>>

MaxSuiteLines == 3     \* longest stdout of 'defects4j test', in lines

\* lines of the stdout of 'defects4j test': the summary line, lines naming a
\* failing test, and lines that differ from those by their indentation,
\* their bullet or a trailing text
SuiteLines ==
    { <<FailingTests, "1">>,
      <<>>,
      <<" ", " ", "-", " ">> \o nameAm,
      <<" ", " ", "-", " ", "a", "_", "1", ".", "B", "$", "2">>,
      <<" ", " ", " ", "-", " ">> \o nameAm,
      <<" ", "-", " ">> \o nameAm,
      <<TAB, "-", " ">> \o nameAm,
      <<" ", " ", "-", " ">> \o nameAm \o <<" ">>,
      <<" ", " ", "-", " ">> \o nameAm \o <<" ", "x">>,
      <<" ", " ", "-", " ", "A", "(", ")">>,
      <<" ", " ", "-", " ">>,
      <<" ", " ", "*", " ">> \o nameAm }

InitSuite ==
    /\ pc = "parse_test_output"
    /\ args \in [stdout : Texts(SuiteLines, MaxSuiteLines)]
    /\ tool = None
    /\ commands = <<>>
    /\ returned = None
    /\ info_output = None /\ info = None
    /\ content = None /\ test_name = None /\ variant = None /\ error_section = None
    /\ stdout = None /\ output = None
    /\ GeneratorIdle
    /\ PipelineIdle

NextSuite == ParseTestOutput

SpecSuite == InitSuite /\ [][NextSuite]_vars

IdentifierChars ==
    {"a", "b", "c", "d", "e", "f", "g", "h", "i", "j", "k", "l", "m", "n", "o",
     "p", "q", "r", "s", "t", "u", "v", "w", "x", "y", "z",
     "A", "B", "C", "D", "E", "F", "G", "H", "I", "J", "K", "L", "M", "N", "O",
     "P", "Q", "R", "S", "T", "U", "V", "W", "X", "Y", "Z",
     "0", "1", "2", "3", "4", "5", "6", "7", "8", "9", "_", ".", "$", ":"}

\* two spaces, dash, space, identifier
IsFailingLine(l) ==
    /\ Len(l) >= 5
    /\ l[1] = " " /\ l[2] = " " /\ l[3] = "-" /\ l[4] = " "
    /\ \A i \in 5..Len(l) : l[i] \in IdentifierChars

\* C22: _parse_test_output returns one outcome for each line of stdout that
\* is two spaces, a dash, a space and an identifier of letters, digits, '_',
\* '.', '$' and ':', in line order, named by the identifier, with status
\* FAIL, error_message None, stack_trace None and execution_time 0.0; other
\* lines give nothing.
C22_OneFailPerFailingLine ==
    pc = "test_output_parsed" =>
        LET named == SelectSeq(SplitLines(args.stdout), IsFailingLine)
            outcomes == returned.value
        IN  /\ returned.raised = ""
            /\ Len(outcomes) = Len(named)
            /\ \A i \in 1..Len(named) :
                  /\ outcomes[i].test_name = SubSeq(named[i], 5, Len(named[i]))
                  /\ outcomes[i].status = "FAIL"
                  /\ outcomes[i].error_message = None
                  /\ outcomes[i].stack_trace = None
                  /\ outcomes[i].execution_time = 0

\* two failing lines around a line with one space more: two outcomes, in
\* line order
C22_Witness ==
    /\ pc = "test_output_parsed"
    /\ args.stdout = <<" ", " ", "-", " ", "a", "_", "1", ".", "B", "$", "2", NL>>
                       \o <<" ", " ", " ", "-", " ">> \o nameAm \o <<NL>>
                       \o <<" ", " ", "-", " ">> \o nameAm
    /\ Len(returned.value) = 2
    /\ returned.value[2].test_name = nameAm

\* a call of get_bug_info(project, bug_id) of defects_manager.py
GetBugInfoCall ==
    /\ pc = "get_bug_info_call"
    /\ commands' = Append(commands, "defects4j info")
    /\ returned' = Return(get_bug_info(args.project, args.bug_id, tool.stdout, TRUE))
    /\ pc' = "bug_info_returned"
    /\ UNCHANGED <<args, tool>>
    /\ UNCHANGED <<info_output, info, content, test_name, variant, error_section,
                   stdout, output>>
    /\ UNCHANGED <<genVars, pipeVars>>

\* a call of get_bug_info(project, bug_id) of mining_buggy_code_logs.py
GetBugInfoCallMining ==
    /\ pc = "get_bug_info_call"
    /\ commands' = Append(commands, "defects4j info")
    /\ returned' = Return(get_bug_info(args.project, args.bug_id, tool.stdout, FALSE))
    /\ pc' = "bug_info_returned_mining"
    /\ UNCHANGED <<args, tool>>
    /\ UNCHANGED <<info_output, info, content, test_name, variant, error_section,
                   stdout, output>>
    /\ UNCHANGED <<genVars, pipeVars>>

InitBugInfo ==
    /\ pc = "get_bug_info_call"
    /\ args \in {[project |-> <<"L", "a", "n", "g">>, bug_id |-> <<"1">>],
                 [project |-> <<"M", "a", "t", "h">>, bug_id |-> <<"2", "0">>]}
    /\ tool \in [stdout : Texts(InfoLines, MaxInfoLines)]
    /\ commands = <<>>
    /\ returned = None
    /\ info_output = None /\ info = None
    /\ content = None /\ test_name = None /\ variant = None /\ error_section = None
    /\ stdout = None /\ output = None
    /\ GeneratorIdle
    /\ PipelineIdle

NextBugInfo == GetBugInfoCall \/ GetBugInfoCallMining

SpecBugInfo == InitBugInfo /\ [][NextBugInfo]_vars

\* the items are found, one after the other, in lines of the text taken in
\* line order from line `from` on
RECURSIVE InLineOrder(_, _, _)
InLineOrder(items, lines, from) ==
    IF items = <<>> THEN TRUE
    ELSE LET holding == {k \in from..Len(lines) : Contains(lines[k], Head(items))}
         IN  /\ holding # {}
             /\ InLineOrder(Tail(items), lines, MinOf(holding) + 1)

\* C23: the bug returned by get_bug_info has patch '' and checkout_path None,
\* the project and bug_id it was called with, and triggering_tests and
\* modified_classes that follow the order of their lines in the tool output.
C23_ParserLeavesPatchAndCheckoutPath ==
    pc \in {"bug_info_returned", "bug_info_returned_mining"} =>
        LET b == returned.value
            lines == SplitLines(tool.stdout)
        IN  /\ b.patch = <<>>
            /\ b.checkout_path = None
            /\ b.project = args.project
            /\ b.bug_id = args.bug_id
            /\ InLineOrder(b.triggering_tests, lines, 1)
            /\ InLineOrder(b.modified_classes, lines, 1)

\* two tests and two classes are listed, b before a, and are returned b
\* before a
C23_Witness ==
    /\ pc = "bug_info_returned"
    /\ args.project = <<"M", "a", "t", "h">>
    /\ returned.value.triggering_tests = << <<"b">>, <<"a">> >>
    /\ returned.value.bug_id = <<"2", "0">>

C23_WitnessClasses ==
    /\ pc = "bug_info_returned"
    /\ returned.value.modified_classes = << <<"b">>, <<"a">> >>

-----------------------------------------------------------------------------
\* the last n elements of a sequence
Last(s, n) == SubSeq(s, Len(s) - n + 1, Len(s))

(* C24: whatever the bug and the outcomes (all passing, all failing, none),
   the last three log entries of the session returned are 'Applying patch
   to fix bug', 'Re-running tests after fix' and 'All tests passing after
   fix', the last with metadata status SUCCESS, and the last three timeline
   lines are 'Applied patch from fixed version', 'Verified fix by re-running
   tests' and 'Confirmed all tests now pass'. *)
C24_ResolutionUnconditional ==
    pc = "done" =>
        /\ Len(session.log_sequence) >= 3
        /\ LET logs == Last(session.log_sequence, 3)
           IN  /\ logs[1].message = <<"Applying patch to fix bug">>
               /\ logs[2].message = <<"Re-running tests after fix">>
               /\ logs[3].message = <<"All tests passing after fix">>
               /\ logs[3].metadata.status = "SUCCESS"
        /\ Len(session.investigation_timeline) >= 3
        /\ Last(session.investigation_timeline, 3) =
              << <<"Applied patch from fixed version">>,
                 <<"Verified fix by re-running tests">>,
                 <<"Confirmed all tests now pass">> >>

\* a session for two outcomes that both pass
C24_Witness ==
    /\ pc = "done"
    /\ Len(test_outputs) = 2
    /\ \A i \in 1..2 : test_outputs[i].status = "PASS"
    /\ Last(session.log_sequence, 1)[1].metadata.status = "SUCCESS"

\* a session for no outcome at all, and one for two failing outcomes
C24_WitnessEmpty == pc = "done" /\ test_outputs = <<>> /\ Len(session.log_sequence) >= 3

C24_WitnessAllFail ==
    /\ pc = "done"
    /\ Len(test_outputs) = 2
    /\ \A i \in 1..2 : test_outputs[i].status = "FAIL"
    /\ Len(session.log_sequence) >= 3

-----------------------------------------------------------------------------
\* an object of the JSON document with the fields of the JSONL format only
Restricted(object) ==
    [bug_id |-> object.bug_id, project |-> object.project, logs |-> object.logs,
     timeline |-> object.timeline, root_cause |-> object.root_cause]

(* C25: once both files are written, line i of the JSONL file is the JSON
   text of the i-th object of the JSON document restricted to bug_id,
   project, logs, timeline and root_cause, and has no other key: neither
   test_failures nor bug_info. *)
C25_JsonlIsRestrictedJson ==
    pc = "exported" =>
        LET lines == FileLines(jsonl_file) IN
        /\ Len(lines) = Len(json_file.objects)
        /\ \A i \in 1..Len(lines) :
              /\ lines[i] = dumps_jsonl_entry(Restricted(json_file.objects[i]))
              /\ ReadRecord(lines[i]).keys = JsonlFields
              /\ ~Contains(lines[i], <<QUOTE, "test_failures", QUOTE>>)
              /\ ~Contains(lines[i], <<QUOTE, "bug_info", QUOTE>>)

\* two sessions are exported, the first with two outcomes in the JSON
\* document
C25_Witness ==
    /\ pc = "exported"
    /\ Len(json_file.objects) = 2
    /\ Len(json_file.objects[1].test_failures) = 2
    /\ json_file.objects[1].bug_info.bug_id = <<"2">>
    /\ Len(FileLines(jsonl_file)) = 2

-----------------------------------------------------------------------------
\* F, S and C of a session: its failing outcomes, those of them with a
\* non-empty stack trace, and the modified classes of its bug
FailCount(s) ==
    Cardinality({i \in 1..Len(s.test_outputs) : s.test_outputs[i].status = "FAIL"})

TraceCount(s) ==
    Cardinality({i \in 1..Len(s.test_outputs) :
                    /\ s.test_outputs[i].status = "FAIL"
                    /\ s.test_outputs[i].stack_trace \notin {None, <<>>}})

ClassCount(s) == Len(s.bug_info.modified_classes)

(* C26: in every session returned, len(timeline) = 8 + F + min(3, C) and
   len(log_sequence) = 8 + F + S + min(3, C): the log is at least as long as
   the timeline and longer by exactly the number S of failing outcomes with
   a non-empty stack trace. *)
C26_Lengths ==
    pc = "done" =>
        LET narrated == IF ClassCount(session) < 3 THEN ClassCount(session) ELSE 3 IN
        /\ Len(session.investigation_timeline) = 8 + FailCount(session) + narrated
        /\ Len(session.log_sequence) =
              8 + FailCount(session) + TraceCount(session) + narrated
        /\ Len(session.log_sequence) >= Len(session.investigation_timeline)
        /\ Len(session.log_sequence) - Len(session.investigation_timeline) =
              TraceCount(session)

\* four modified classes, two failing outcomes, one of them with a stack
\* trace: 13 timeline lines and 14 log entries
C26_Witness ==
    /\ pc = "done"
    /\ ClassCount(session) = 4
    /\ FailCount(session) = 2
    /\ TraceCount(session) = 1
    /\ Len(session.investigation_timeline) = 13
    /\ Len(session.log_sequence) = 14

-----------------------------------------------------------------------------
\* the log entries of a session that the Failure phase writes
FailureEntries(s) ==
    {i \in 1..Len(s.log_sequence) :
        s.log_sequence[i].message[1] \in {"Test failed: ", "Stack trace for "}}

(* C27: no stage of the pipeline sets stack_trace: every outcome run_tests
   returns (single tests or the whole suite, enriched from the report or
   not) has stack_trace None, and every session the pipeline builds has
   exactly one Failure-phase log entry per failing outcome and no
   'Stack trace' entry. *)
C27_NoStackTraceInPipeline ==
    /\ pc = "export_patch" =>
          \A i \in 1..Len(test_outputs) : test_outputs[i].stack_trace = None
    /\ \A k \in 1..Len(sessions) :
          /\ \A i \in 1..Len(sessions[k].test_outputs) :
                sessions[k].test_outputs[i].stack_trace = None
          /\ Cardinality(FailureEntries(sessions[k])) = FailCount(sessions[k])
          /\ \A i \in 1..Len(sessions[k].log_sequence) :
                sessions[k].log_sequence[i].message[1] # "Stack trace for "

\* a session of a bug whose failing test was run alone and got its error
\* message from the report, and one whose outcomes come from the whole suite
C27_Witness ==
    /\ Len(sessions) = 2
    /\ sessions[1].bug_info.triggering_tests # <<>>
    /\ FailCount(sessions[1]) = 1
    /\ Truthy(sessions[1].test_outputs[1].error_message)
    /\ sessions[2].bug_info.triggering_tests = <<>>
    /\ FailCount(sessions[2]) = 1
    /\ Cardinality(FailureEntries(sessions[2])) = 1

-----------------------------------------------------------------------------
(* Calls of run_tests(checkout_path, specific_tests) *)

\* the command lines of lines 225 and 198 after 'cd {checkout_path} && ':
\* t is the test of the -t flag, None for the whole suite
Command(t) == [cmd |-> "defects4j test", t |-> t]

\* the first of the first n runs after which open() of 'failing_tests'
\* raises, 0 when there is none
FirstUnreadable(failings, n) ==
    LET raising == {i \in 1..n : failings[i] = Unreadable}
    IN  IF raising = {} THEN 0 ELSE MinOf(raising)

\* the file 'failing_tests' as run_tests finds it after its last run
LastReport(failings, n) == IF n = 0 THEN failings[1] ELSE failings[n]

\* a call of run_tests of defects_manager.py: tool.stdouts[i] is what the
\* i-th run of a single test prints, tool.failings[i] the file
\* 'failing_tests' after the i-th run, tool.suite what the run of the whole
\* suite prints
RunTestsCall ==
    /\ pc = "run_tests_call"
    /\ LET tests == args.specific_tests
           n == Len(tests)
           k == FirstUnreadable(tool.failings, n)
       IN  IF tests # <<>>
           THEN IF k > 0
                THEN /\ commands' = [i \in 1..k |-> Command(tests[i])]
                     /\ returned' = Raise("OSError")
                ELSE /\ commands' = [i \in 1..n |-> Command(tests[i])]
                     /\ returned' = Return(run_tests(tests, tool.stdouts,
                                                     tool.failings, tool.suite))
           ELSE /\ commands' = <<Command(None)>>
                /\ returned' = Return(run_tests(tests, tool.stdouts,
                                                tool.failings, tool.suite))
    /\ pc' = "tests_returned"
    /\ UNCHANGED <<args, tool>>
    /\ UNCHANGED <<info_output, info, content, test_name, variant, error_section,
                   stdout, output>>
    /\ UNCHANGED <<genVars, pipeVars>>

\* a call of run_tests of mining_buggy_code_logs.py: the outcomes are
\* enriched from the file as the last run leaves it
RunTestsCallMining ==
    /\ pc = "run_tests_call"
    /\ LET tests == args.specific_tests
           n == Len(tests)
           k == FirstUnreadable(tool.failings, n)
       IN  IF tests # <<>>
           THEN IF k > 0
                THEN /\ commands' = [i \in 1..k |-> Command(tests[i])]
                     /\ returned' = Raise("OSError")
                ELSE /\ commands' = [i \in 1..n |-> Command(tests[i])]
                     /\ returned' = Return(run_tests_mining(tests, tool.stdouts,
                                              tool.failings, tool.suite,
                                              LastReport(tool.failings, n)))
           ELSE /\ commands' = <<Command(None)>>
                /\ returned' = Return(run_tests_mining(tests, tool.stdouts,
                                         tool.failings, tool.suite,
                                         LastReport(tool.failings, n)))
    /\ pc' = "tests_returned_mining"
    /\ UNCHANGED <<args, tool>>
    /\ UNCHANGED <<info_output, info, content, test_name, variant, error_section,
                   stdout, output>>
    /\ UNCHANGED <<genVars, pipeVars>>

MaxTests == 2          \* most tests listed in a call

\* a test with a class and a method, a test named by a piece of it, a test
\* the reports do not name
ListedTests == {nameAm, <<"m">>, <<"B">>}

\* the file 'failing_tests': absent, unreadable, with the section of A::m,
\* with a header of A::m and no section
Reports ==
    {None, Unreadable,
     join(<<Header(nameAm), <<"e">>, <<" ", "f">>>>, <<NL>>) \o <<NL>>,
     Header(nameAm) \o <<NL>>}

InitRunTests ==
    /\ pc = "run_tests_call"
    /\ args \in [specific_tests : SeqsUpTo(ListedTests, MaxTests)]
    /\ tool \in [stdouts : [1..MaxTests -> TestStdouts],
                 failings : [1..MaxTests -> Reports],
                 suite : SuiteStdouts]
    /\ commands = <<>>
    /\ returned = None
    /\ info_output = None /\ info = None
    /\ content = None /\ test_name = None /\ variant = None /\ error_section = None
    /\ stdout = None /\ output = None
    /\ GeneratorIdle
    /\ PipelineIdle

NextRunTests == RunTestsCall \/ RunTestsCallMining

SpecRunTests == InitRunTests /\ [][NextRunTests]_vars

-----------------------------------------------------------------------------
\* run_tests has returned a list of outcomes
TestsReturned ==
    /\ pc \in {"tests_returned", "tests_returned_mining"}
    /\ returned.raised = ""

(* C28: after run_tests only failing outcomes carry failure detail: every
   returned outcome whose error_message is not None has status FAIL; an
   outcome parsed as PASS is never given an error message from the
   failing_tests report, whatever the report contains. *)
C28_OnlyFailingCarryDetail ==
    TestsReturned =>
        \A i \in 1..Len(returned.value) :
            returned.value[i].error_message # None
                => returned.value[i].status = "FAIL"

-----------------------------------------------------------------------------
(* Calls of _enrich_with_failure_details(outputs, failing_tests_file) *)

\* a call of _enrich_with_failure_details of defects_manager.py:
\* tool.failing is what reading the file gives
EnrichCall ==
    /\ pc = "enrich_call"
    /\ returned' = Return(_enrich_with_failure_details(args.outputs, tool.failing))
    /\ pc' = "enriched"
    /\ UNCHANGED <<args, tool, commands>>
    /\ UNCHANGED <<info_output, info, content, test_name, variant, error_section,
                   stdout, output>>
    /\ UNCHANGED <<genVars, pipeVars>>

\* the same call of mining_buggy_code_logs.py
EnrichCallMining ==
    /\ pc = "enrich_call"
    /\ returned' = Return(_enrich_with_failure_details(args.outputs, tool.failing))
    /\ pc' = "enriched_mining"
    /\ UNCHANGED <<args, tool, commands>>
    /\ UNCHANGED <<info_output, info, content, test_name, variant, error_section,
                   stdout, output>>
    /\ UNCHANGED <<genVars, pipeVars>>

MaxEnriched == 2       \* most outcomes handed to a call

\* outcomes of every status, with no, an empty and a non-empty error
\* message, with and without a stack trace, named in the report or not
EnrichedOutcomes ==
    {TestOutput(name, status, err, trace) :
        name \in {nameAm, <<"B">>}, status \in {"PASS", "FAIL", "ERROR"},
        err \in {None, <<>>, <<"x">>}, trace \in {None, <<"t">>}}

\* what reading the file gives: the read raises, the section of A::m, an
\* empty file
EnrichReports ==
    {Unreadable, join(<<Header(nameAm), <<"e">>, <<" ", "f">>>>, <<NL>>) \o <<NL>>,
     <<>>}

InitEnrich ==
    /\ pc = "enrich_call"
    /\ args \in [outputs : SeqsUpTo(EnrichedOutcomes, MaxEnriched)]
    /\ tool \in [failing : EnrichReports]
    /\ commands = <<>>
    /\ returned = None
    /\ info_output = None /\ info = None
    /\ content = None /\ test_name = None /\ variant = None /\ error_section = None
    /\ stdout = None /\ output = None
    /\ GeneratorIdle
    /\ PipelineIdle

NextEnrich == EnrichCall \/ EnrichCallMining

SpecEnrich == InitEnrich /\ [][NextEnrich]_vars

-----------------------------------------------------------------------------
\* the outcome with its error message taken out
WithoutMessage(o) == [o EXCEPT !.error_message = None]

(* C29: _enrich_with_failure_details changes nothing except empty error
   messages of failing outcomes: it returns the same outcomes in the same
   order and number, never changes test_name, status, stack_trace,
   execution_time or timestamp, never overwrites a non-empty error_message,
   never touches an outcome whose status is not FAIL, and returns the
   outcomes unchanged when reading the report raises. *)
C29_EnrichFrame ==
    pc \in {"enriched", "enriched_mining"} =>
        /\ returned.raised = ""
        /\ Len(returned.value) = Len(args.outputs)
        /\ \A i \in 1..Len(args.outputs) :
              LET before == args.outputs[i]
                  after == returned.value[i]
              IN  /\ WithoutMessage(after) = WithoutMessage(before)
                  /\ Truthy(before.error_message) => after = before
                  /\ before.status # "FAIL" => after = before
        /\ tool.failing = Unreadable => returned.value = args.outputs

\* a failing outcome without message gets the section of the report, while
\* a passing one named in the report stays as it is
C29_Witness ==
    /\ pc = "enriched_mining"
    /\ Len(args.outputs) = 2
    /\ args.outputs[1].status = "FAIL" /\ args.outputs[1].error_message = None
    /\ returned.value[1].error_message = <<"e", NL, " ", "f">>
    /\ args.outputs[2].status = "PASS" /\ args.outputs[2].test_name = nameAm
    /\ args.outputs[2].error_message = <<>>
    /\ returned.value[2] = args.outputs[2]

\* the read raises and the outcomes come back as they went in
C29_WitnessUnreadable ==
    /\ pc = "enriched"
    /\ tool.failing = Unreadable
    /\ Len(args.outputs) = 2
    /\ args.outputs[1].status = "FAIL" /\ args.outputs[1].error_message = None
    /\ returned.value = args.outputs

-----------------------------------------------------------------------------
(* C30: run_tests called with a list of specific tests returns exactly one
   outcome per listed test, in list order, with test_name equal to the
   listed name, and runs only those tests; for an empty list it returns an
   empty list and does not run the whole test suite. *)
C30_OneOutcomePerListedTest ==
    TestsReturned =>
        /\ Len(returned.value) = Len(args.specific_tests)
        /\ \A i \in 1..Len(args.specific_tests) :
              returned.value[i].test_name = args.specific_tests[i]
        /\ Len(commands) = Len(args.specific_tests)
        /\ \A i \in 1..Len(commands) : commands[i] = Command(args.specific_tests[i])

\* the same for the calls that list at least one test
C30_NonEmptyLists ==
    args.specific_tests # <<>> => C30_OneOutcomePerListedTest

====
